---- MODULE Spec2Model ----
(***************************************************************************)
(* Model of the echo enhancement task of ok-wuthering-waves:               *)
(*   src/src/task/AutoEnhanceEchoTask.py  run, smart_enhance_run,          *)
(*                                        legacy_run, do_handle_pop_up     *)
(*   src/src/echo/calculate.py            Calculator                       *)
(*   src/src/echo/profile.py              EntryCoef, EchoProfile           *)
(*   src/src/echo/stats.py                StatsManager                     *)
(*                                                                         *)
(* Python floats are modelled as exact rationals [n, d] (d > 0, lowest     *)
(* terms), so that equality is structural.  What the host engine answers   *)
(* (feature matching, OCR, the in-team check) is an input chosen by the    *)
(* environment each time the code asks for it.                             *)
(***************************************************************************)
EXTENDS Integers, Sequences, FiniteSets, TLC

(***************************************************************************)
(* Exact rationals                                                         *)
(***************************************************************************)
Abs(x) == IF x < 0 THEN -x ELSE x

RECURSIVE GCD(_, _)
GCD(a, b) == IF b = 0 THEN a ELSE GCD(b, a % b)

LCM(a, b) == (a \div GCD(a, b)) * b

Rat(n, d) ==
    LET s == IF d < 0 THEN -1 ELSE 1
        g == GCD(Abs(n), Abs(d))
    IN  [n |-> (s * n) \div g, d |-> (s * d) \div g]

Zero == [n |-> 0, d |-> 1]
One == [n |-> 1, d |-> 1]
RInt(i) == [n |-> i, d |-> 1]

RAdd(a, b) ==
    LET l == LCM(a.d, b.d)
    IN  Rat(a.n * (l \div a.d) + b.n * (l \div b.d), l)
RNeg(a) == [n |-> -a.n, d |-> a.d]
RSub(a, b) == RAdd(a, RNeg(b))
RMul(a, b) ==
    LET g1 == GCD(Abs(a.n), b.d)
        g2 == GCD(Abs(b.n), a.d)
    IN  Rat((a.n \div g1) * (b.n \div g2), (a.d \div g2) * (b.d \div g1))
\* a / b for b # 0
RDiv(a, b) == RMul(a, Rat(b.d, b.n))
RLe(a, b) == RSub(a, b).n <= 0
RLt(a, b) == RSub(a, b).n < 0

\* Sum of the integers g[k] over the keys k in S
RECURSIVE IntSum(_, _)
IntSum(g, S) ==
    IF S = {} THEN 0
    ELSE LET k == CHOOSE x \in S : TRUE
         IN  g[k] + IntSum(g, S \ {k})

\* The least common multiple of a set of positive integers
RECURSIVE LcmOver(_)
LcmOver(D) ==
    IF D = {} THEN 1
    ELSE LET x == CHOOSE y \in D : TRUE
         IN  LCM(x, LcmOver(D \ {x}))

\* Sum of f[k] over the keys k in S, over the common denominator
SumOver(f, S) ==
    LET l == LcmOver({f[k].d : k \in S})
    IN  Rat(IntSum([k \in S |-> f[k].n * (l \div f[k].d)], S), l)

(***************************************************************************)
(* The 13 stat fields of EntryCoef and EchoProfile                         *)
(***************************************************************************)
StatKeys ==
    {"atk_rate", "atk_num", "def_rate", "def_num", "hp_rate", "hp_num",
     "cri_rate", "cri_dmg", "normal_dmg", "charged_atk", "resonance_skill",
     "resonance_burst", "resonance_eff"}

\* EchoProfile(level, name) with every stat field at its default 0
EchoProfile(level, name) ==
    [level |-> level, name |-> name, stats |-> [k \in StatKeys |-> 0]]

\* setattr(profile, key, value) for each item of a dict of stat values
WithStats(profile, sub) ==
    [profile EXCEPT !.stats =
        [k \in StatKeys |-> IF k \in DOMAIN sub THEN sub[k] ELSE @[k]]]

(***************************************************************************)
(* Catalog data.  The tables are loaded from assets/config/*.yml; every    *)
(* operator below takes the loaded table as a parameter (sd: the stat      *)
(* table of StatsManager._stats_data, cd: coef_data of profile.py).        *)
(***************************************************************************)
Half == Rat(1, 2)
Quarter == Rat(1, 4)

Entry(v, p) == [value |-> v, probability |-> p]

\* A stat entry: display name, value kind and distribution
Stat(name, type, dist) == [name |-> name, type |-> type, distribution |-> dist]

IsFlat(k) == k \in {"atk_num", "def_num", "hp_num"}

\* The display name of a stat, as the characters of its text: the flat and
\* the percentage stat of a kind share a name, and the name of cri_rate
\* begins that of cri_dmg
DisplayName(k) ==
    CASE k \in {"atk_rate", "atk_num"} -> <<"A", "T">>
      [] k \in {"def_rate", "def_num"} -> <<"D", "F">>
      [] k \in {"hp_rate", "hp_num"} -> <<"H", "P">>
      [] k = "cri_rate" -> <<"C", "R">>
      [] k = "cri_dmg" -> <<"C", "R", "D">>
      [] k = "normal_dmg" -> <<"N", "O">>
      [] k = "charged_atk" -> <<"H", "V">>
      [] k = "resonance_skill" -> <<"S", "K">>
      [] k = "resonance_burst" -> <<"B", "U">>
      [] OTHER -> <<"E", "F">>

\* A well-formed stat table with the 13 keys (the shape of entry_stats.yml)
FullCatalog ==
    [k \in StatKeys |->
        IF IsFlat(k)
        THEN Stat(DisplayName(k), "flat", <<Entry(30, Half), Entry(40, Quarter), Entry(50, Quarter)>>)
        ELSE IF k = "cri_dmg"
        THEN Stat(DisplayName(k), "percentage", <<Entry(12, Half), Entry(16, Half)>>)
        ELSE Stat(DisplayName(k), "percentage",
                  <<Entry(6, Half), Entry(8, Quarter), Entry(10, Quarter)>>)]

\* f overridden by the items of g (setattr for each item of a mapping)
Override(f, g) ==
    [k \in (DOMAIN f) \cup (DOMAIN g) |-> IF k \in DOMAIN g THEN g[k] ELSE f[k]]

\* The shape of entry_coef.yml: "Default" and the characters, each with a
\* damage source and a sparse mapping of weights
CoefData ==
    [c \in {"Default", "Cartethyia", "Jiyan", "Taoqi"} |->
        CASE c = "Default" ->
                [dmg_source |-> "atk",
                 coef |-> [k \in {"cri_rate", "cri_dmg"} |->
                              IF k = "cri_rate" THEN RInt(2) ELSE One]]
          [] c = "Cartethyia" ->
                [dmg_source |-> "hp",
                 coef |-> [k \in {"cri_rate", "resonance_burst"} |->
                              IF k = "cri_rate" THEN RInt(2) ELSE Half]]
          [] c = "Jiyan" ->
                [dmg_source |-> "atk",
                 coef |-> [k \in {"atk_num", "cri_rate", "cri_dmg"} |-> Zero]]
          [] c = "Taoqi" ->
                [dmg_source |-> "def",
                 coef |-> [k \in {"cri_dmg", "resonance_skill"} |->
                              IF k = "cri_dmg" THEN Zero ELSE Half]]]

(***************************************************************************)
(* EntryCoef (profile.py)                                                  *)
(***************************************************************************)
HpNum == Rat(169, 25000)    \* 0.00676
AtkNum == Rat(1, 10)        \* 0.1
DefNum == Rat(1, 10)        \* 0.1

ValueError == [err |-> "ValueError"]
ZeroDivisionError == [err |-> "ZeroDivisionError"]
Raised(x) == "err" \in DOMAIN x

\* The damage source fixes the matching rate and flat weights
SourceWeights(dmg_source) ==
    CASE dmg_source = "hp"  -> [k \in {"hp_num", "hp_rate"} |->
                                   IF k = "hp_num" THEN HpNum ELSE One]
      [] dmg_source = "atk" -> [k \in {"atk_num", "atk_rate"} |->
                                   IF k = "atk_num" THEN AtkNum ELSE One]
      [] dmg_source = "def" -> [k \in {"def_num", "def_rate"} |->
                                   IF k = "def_num" THEN DefNum ELSE One]
      [] OTHER -> [k \in {} |-> Zero]

\* A set_char that takes an unknown name for no change
SetCharLenient(cd, obj, char_name) ==
    IF char_name \notin DOMAIN cd THEN obj
    ELSE Override(Override(obj, SourceWeights(cd[char_name].dmg_source)),
                  cd[char_name].coef)

\* EntryCoef.set_char
SetChar(cd, coef, char_name) ==
    IF char_name \notin DOMAIN cd THEN ValueError
    ELSE Override(Override(coef, SourceWeights(cd[char_name].dmg_source)),
                  cd[char_name].coef)

\* EntryCoef.__init__ with a character name
EntryCoef(cd, char_name) ==
    SetChar(cd, Override([k \in StatKeys |-> Zero], cd["Default"].coef), char_name)

\* getattr(coef, key, 0)
CoefGet(coef, key) == IF key \in DOMAIN coef THEN coef[key] ELSE Zero

(***************************************************************************)
(* StatsManager lookups (stats.py)                                         *)
(***************************************************************************)
GetAllKeys(sd) == DOMAIN sd

GetDistribution(sd, key) ==
    IF key \in DOMAIN sd THEN sd[key].distribution ELSE <<>>

(***************************************************************************)
(* Calculator (calculate.py)                                               *)
(***************************************************************************)
\* The stat keys of the table whose field is > 0 in the profile
ExistingSubStats(sd, profile) ==
    {key \in GetAllKeys(sd) : profile.stats[key] > 0}

AttributeError == [err |-> "AttributeError"]
KeyError == [err |-> "KeyError"]

\* A get_score that leaves out the weights below 1
GetScoreWholeWeights(profile, coef) ==
    LET used == {key \in DOMAIN coef : RLe(One, coef[key]) /\ key \in StatKeys}
    IN  SumOver([key \in used |-> RMul(RInt(profile.stats[key]), coef[key])], used)

\* EchoProfile.get_score (profile.py): every attribute of the coefficient
\* profile is read from the profile
ProfileGetScore(profile, coef) ==
    IF \E key \in DOMAIN coef : key \notin StatKeys THEN AttributeError
    ELSE SumOver([key \in DOMAIN coef |-> RMul(RInt(profile.stats[key]), coef[key])],
                 DOMAIN coef)

\* Calculator.get_score
GetScore(profile, coef) ==
    LET used == {key \in DOMAIN coef : RLt(Zero, coef[key]) /\ key \in StatKeys}
    IN  SumOver([key \in used |-> RMul(RInt(profile.stats[key]), coef[key])], used)

MaxValue(dist) ==
    CHOOSE v \in {dist[i].value : i \in DOMAIN dist} :
        \A i \in DOMAIN dist : dist[i].value <= v

\* The sum of all the values f[k], k in S, whatever n
TopSumAll(f, S, n) == SumOver(f, S)

\* sum(sorted(values, reverse=True)[:n]) for the values f[k], k in S
RECURSIVE TopSum(_, _, _)
TopSum(f, S, n) ==
    IF n <= 0 \/ S = {} THEN Zero
    ELSE LET k == CHOOSE x \in S : \A y \in S : RLe(f[y], f[x])
         IN  RAdd(f[k], TopSum(f, S \ {k}, n - 1))

\* Calculator.get_max_possible_score
GetMaxPossibleScore(sd, profile, coef) ==
    LET current_score == GetScore(profile, coef)
        existing == ExistingSubStats(sd, profile)
        remaining_slots == 5 - Cardinality(existing)
        avail == {key \in GetAllKeys(sd) \ existing : GetDistribution(sd, key) # <<>>}
        available_stats ==
            [key \in avail |->
                RMul(RInt(MaxValue(GetDistribution(sd, key))), CoefGet(coef, key))]
    IN  IF remaining_slots <= 0 THEN current_score
        ELSE RAdd(current_score, TopSum(available_stats, avail, remaining_slots))

\* sum(d['value'] * d['probability'] for d in dist)
AvgValue(dist) ==
    SumOver([i \in DOMAIN dist |-> RMul(RInt(dist[i].value), dist[i].probability)],
            DOMAIN dist)

\* get_expected_score without its early return
GetExpectedScoreNoShortcut(sd, profile, coef) ==
    LET current_score == GetScore(profile, coef)
        existing == ExistingSubStats(sd, profile)
        k == 5 - Cardinality(existing)
        pool == GetAllKeys(sd) \ existing
        weighted == {key \in pool : CoefGet(coef, key) # Zero}
        pool_expected_sum ==
            SumOver([key \in weighted |->
                        RMul(AvgValue(GetDistribution(sd, key)), CoefGet(coef, key))],
                    weighted)
    IN  IF pool = {} THEN ZeroDivisionError
        ELSE RAdd(current_score,
                  RMul(RDiv(pool_expected_sum, RInt(Cardinality(pool))), RInt(k)))

\* Calculator.get_expected_score
GetExpectedScore(sd, profile, coef) ==
    LET current_score == GetScore(profile, coef)
        existing == ExistingSubStats(sd, profile)
        k == 5 - Cardinality(existing)
        pool == GetAllKeys(sd) \ existing
        weighted == {key \in pool : CoefGet(coef, key) # Zero}
        pool_expected_sum ==
            SumOver([key \in weighted |->
                        RMul(AvgValue(GetDistribution(sd, key)), CoefGet(coef, key))],
                    weighted)
    IN  IF k <= 0 THEN current_score
        ELSE IF pool = {} THEN ZeroDivisionError
        ELSE RAdd(current_score,
                  RMul(RDiv(pool_expected_sum, RInt(Cardinality(pool))), RInt(k)))

\* math.comb(n, k) for 0 <= k
RECURSIVE Comb(_, _)
Comb(n, k) ==
    IF k = 0 THEN 1
    ELSE IF n < k THEN 0
    ELSE Comb(n - 1, k - 1) + Comb(n - 1, k)

\* The tolerance of the comparison with needed_score is 1 / EpsDen
EpsDen == 1000000000

\* s >= needed - 1e-9
GeTol(s, needed) ==
    LET diff == RSub(s, needed)
    IN  diff.n >= 0 \/ -diff.n <= diff.d \div EpsDen

\* {score: probability} of one stat of the pool, as the set of its items
AttrScoreDist(sd, coef, key) ==
    LET weight == CoefGet(coef, key)
        dist == GetDistribution(sd, key)
        items == {<<RMul(RInt(dist[i].value), weight), dist[i].probability, i>> :
                    i \in DOMAIN dist}
    IN  IF weight = Zero THEN {<<Zero, One>>}
        ELSE {<<s, LET at == {q \in items : q[1] = s}
                   IN  SumOver([q \in at |-> q[2]], at)>> :
                s \in {q[1] : q \in items}}

\* A convolution that keeps one product for a score, new_dist[s1 + s2] = p1 * p2
ConvolveOverwrite(d1, d2) ==
    LET pairs == {<<RAdd(q[1][1], q[2][1]), RMul(q[1][2], q[2][2]), q>> :
                    q \in d1 \X d2}
    IN  {<<s, (CHOOSE q \in pairs : q[1] = s)[2]>> : s \in {q[1] : q \in pairs}}

\* One step of the convolution: the distribution of s1 + s2
Convolve(d1, d2) ==
    LET pairs == {<<RAdd(q[1][1], q[2][1]), RMul(q[1][2], q[2][2]), q>> :
                    q \in d1 \X d2}
    IN  {<<s, LET at == {q \in pairs : q[1] = s}
              IN  SumOver([q \in at |-> q[2]], at)>> :
            s \in {q[1] : q \in pairs}}

\* The score distribution of the stats of one combination
RECURSIVE ComboDist(_, _, _, _)
ComboDist(sd, coef, combo, acc) ==
    IF combo = {} THEN acc
    ELSE LET attr == CHOOSE x \in combo : TRUE
         IN  ComboDist(sd, coef, combo \ {attr},
                       Convolve(acc, AttrScoreDist(sd, coef, attr)))

\* sum(p for s, p in dist.items() if s >= needed_score - 1e-9)
ProbGe(dist, needed) ==
    LET at == {q \in dist : GeTol(q[1], needed)}
    IN  SumOver([q \in at |-> q[2]], at)

\* Steps 2 to 4 of prob_above_score: the mean over the combinations of k
\* stats of the pool of the probability to gain needed_score
ProbOverCombos(sd, coef, pool, k, needed) ==
    LET combos == {S \in SUBSET pool : Cardinality(S) = k}
        start == {<<Zero, One>>}
        total_valid_prob ==
            SumOver([S \in combos |-> ProbGe(ComboDist(sd, coef, S, start), needed)],
                    combos)
    IN  RDiv(total_valid_prob, RInt(Comb(Cardinality(pool), k)))

\* prob_above_score without its first early return
ProbAboveScoreNoShortcut(sd, profile, coef, threshold) ==
    LET needed_score == RSub(threshold, GetScore(profile, coef))
        existing == ExistingSubStats(sd, profile)
        k == 5 - Cardinality(existing)
        pool == GetAllKeys(sd) \ existing
    IN  IF k <= 0 THEN Zero
        ELSE IF Cardinality(pool) < k THEN Zero
        ELSE ProbOverCombos(sd, coef, pool, k, needed_score)

\* Calculator.prob_above_score
ProbAboveScore(sd, profile, coef, threshold) ==
    LET current_score == GetScore(profile, coef)
        needed_score == RSub(threshold, current_score)
        existing == ExistingSubStats(sd, profile)
        k == 5 - Cardinality(existing)
        pool == GetAllKeys(sd) \ existing
    IN  IF RLe(needed_score, Zero) THEN One
        ELSE IF k <= 0 THEN (IF RLt(Zero, needed_score) THEN Zero ELSE One)
        ELSE IF Cardinality(pool) < k THEN Zero
        ELSE ProbOverCombos(sd, coef, pool, k, needed_score)

(***************************************************************************)
(* State                                                                   *)
(***************************************************************************)
VARIABLES
    pc,            \* where the task is
    ret,           \* what run / legacy_run returned
    stats_data,    \* StatsManager._stats_data
    user_config,   \* StatsManager._user_config, as loaded
    legacy_mode,   \* self.config['Legacy Mode']
    in_team,       \* what scene.in_team answered in run
    \* locals of smart_enhance_run
    target_role, threshold, auto_tune, auto_next, coef,
    loop_count, profile, score_ratio,
    \* locals of legacy_run and of the wait_until around do_handle_pop_up
    enhance_button, wait, step, elapsed, handled,
    \* what the task did (observations, never read by the task)
    ran,           \* the strategies started
    last,          \* the last effect
    scans,         \* calls of scan_echo_panel
    acts,          \* EchoAction calls and sleeps since the last scan
    evaluated,     \* whether the profile of the last scan was scored
    enh_clicks,    \* clicks of the legacy click loop (counted up to MaxClicks)
    frame,         \* parity of the frames the legacy click loop has seen
    ltrace,        \* what legacy_run did after its click loop
    clicks,        \* number of clicks outside the click loop (up to MaxClicks)
    pop_screen, pop_step, pop_result, pop_clicks,  \* the last do_handle_pop_up call
    \* a call of a Calculator or EchoProfile method: its arguments, and once
    \* it has returned its name and result
    calc_op, calc_profile, calc_coef, calc_threshold, calc_result,
    \* the user settings of StatsManager
    config_file,    \* echo_user_config.yml on disk
    disk_writable,  \* whether the file can be written
    conf_op, conf_key, conf_result,   \* the last get / set / load call
    last_set,       \* the values set since the settings were last loaded
    saved_set,      \* the values set and written to the file
    file_before,    \* the file as it was before the last set_user_conf
    \* the static catalogs at process start
    stat_file, coef_file,   \* entry_stats.yml, entry_coef.yml: how they read
    load_pc,                \* which modules have been imported, or "aborted"
    lookup_op, lookup_result,  \* the last StatsManager lookup
    calc_arg,      \* the other arguments of the last EchoProfile / EntryCoef call
    coef_data,     \* coef_data of profile.py, as loaded from entry_coef.yml
    panel,         \* the widgets of the EchoInterface, None before it is built
    \* a movement helper of BaseWWTask
    held,          \* the keys and mouse buttons that are down
    peak,          \* the most movement keys that were down at once
    nav,           \* the helper called, its arguments and its locals
    nav_ret,       \* what it returned or raised
    card           \* the monthly card check: the clock, the schedule, the calls

smartVars == <<target_role, threshold, auto_tune, auto_next, coef, loop_count,
               profile, score_ratio, scans, acts, evaluated>>
legacyVars == <<enhance_button, wait, step, elapsed, handled, enh_clicks, frame,
                ltrace, clicks, pop_screen, pop_step, pop_result, pop_clicks>>
calcVars == <<calc_op, calc_profile, calc_coef, calc_threshold, calc_result>>
confVars == <<config_file, disk_writable, conf_op, conf_key, conf_result, last_set,
              saved_set, file_before>>
\* The variables of the parts modelled further down
coefVars == <<calc_arg, coef_data>>
panelVars == <<panel>>
baseVars == <<held, peak, nav, nav_ret>>
cardVars == <<card>>
otherVars == <<coefVars, panelVars, baseVars, cardVars>>
\* The variables that only the task and the catalog loading change
coreVars == <<pc, ret, in_team, ran, last, smartVars, legacyVars, legacy_mode,
              stats_data, stat_file, coef_file, load_pc, lookup_op, lookup_result>>
runVars == <<pc, ret, in_team, ran, last, smartVars, legacyVars, legacy_mode,
             otherVars>>
loadVars == <<stat_file, coef_file, load_pc, lookup_op, lookup_result>>
envVars == <<stats_data, user_config, legacy_mode, calcVars, confVars, loadVars,
             otherVars>>
taskVars == <<pc, ret, in_team, ran, last, smartVars, legacyVars, user_config,
              legacy_mode, confVars, loadVars, otherVars>>
vars == <<pc, ret, in_team, ran, last, smartVars, legacyVars, envVars>>

(***************************************************************************)
(* Inputs                                                                  *)
(***************************************************************************)
\* Python's None, where a record or a string may stand as well
None == [none |-> TRUE]
IsNone(x) == x = None

\* {}: the table with no key
EmptyTable == [k \in {} |-> None]

ConfKeys == {"target_role", "threshold", "auto_tune", "auto_next"}

Restrict(f, D) == [k \in D |-> f[k]]

Conf(role, thr, tune, next) ==
    [k \in ConfKeys |->
        CASE k = "target_role" -> role
          [] k = "threshold" -> thr
          [] k = "auto_tune" -> tune
          [] k = "auto_next" -> next]

\* The settings the task may start from: complete ones, one naming a character
\* that is not in the coefficient catalog, one without the two toggles, and an
\* empty one
UserConfigs ==
    {Conf(r, t, u, n) :
        r \in {"Default", "Cartethyia"}, t \in {Zero, Half},
        u \in BOOLEAN, n \in BOOLEAN}
    \cup {Conf("Nobody", Half, TRUE, TRUE),
          Restrict(Conf("Cartethyia", Rat(4, 5), TRUE, TRUE), {"target_role", "threshold"}),
          Restrict(Conf("", Zero, FALSE, FALSE), {})}

\* What a scan of the panel can give: no profile, or a profile with the level
\* and the sub-stats the OCR read
ScanResults ==
    {None,
     EchoProfile(0, ""),
     WithStats(EchoProfile(5, ""), [k \in {"cri_rate"} |-> 10]),
     WithStats(EchoProfile(5, ""), [k \in {"def_num"} |-> 30]),
     WithStats(EchoProfile(25, ""),
               [k \in {"cri_rate", "cri_dmg", "atk_rate", "atk_num", "hp_rate"} |->
                   CASE k = "cri_rate" -> 10 [] k = "cri_dmg" -> 16
                     [] k = "atk_rate" -> 10 [] k = "atk_num" -> 50
                     [] OTHER -> 10]),
     WithStats(EchoProfile(25, ""),
               [k \in {"def_num", "def_rate", "resonance_eff", "normal_dmg", "charged_atk"} |->
                   IF k = "def_num" THEN 30 ELSE 6]),
     WithStats(EchoProfile(30, ""),
               [k \in {"cri_rate", "cri_dmg", "atk_rate", "atk_num", "hp_rate", "hp_num"} |->
                   CASE k = "cri_rate" -> 10 [] k = "cri_dmg" -> 16
                     [] k = "atk_rate" -> 10 [] k = "atk_num" -> 50
                     [] k = "hp_num" -> 50 [] OTHER -> 10])}

\* A return value of None where the other values are strings
NoResult == "None"

\* The features do_handle_pop_up looks for on a frame
Features == {"echo_enhance_confirm", "echo_enhance_btn", "red_dot", "echo_merge"}

\* The clicks of the legacy click loop are counted up to this number
MaxClicks == 3

(***************************************************************************)
(* run                                                                     *)
(***************************************************************************)
\* No setting saved
NoConf == Restrict(Conf("", Zero, FALSE, FALSE), {})

\* The task as constructed
TaskInit ==
    /\ pc = "run"
    /\ ret = NoResult
    /\ in_team = FALSE
    /\ target_role = "" /\ threshold = Zero /\ auto_tune = FALSE /\ auto_next = FALSE
    /\ coef = None /\ loop_count = 0 /\ profile = None /\ score_ratio = None
    /\ enhance_button = FALSE /\ wait = FALSE /\ step = 0 /\ elapsed = 0
    /\ handled = NoResult
    /\ ran = {} /\ last = "" /\ scans = 0 /\ acts = <<>> /\ evaluated = FALSE
    /\ enh_clicks = 0 /\ frame = 0 /\ ltrace = <<>> /\ clicks = 0
    /\ pop_screen = {} /\ pop_step = 0 /\ pop_result = NoResult /\ pop_clicks = <<>>

\* coef_data as loaded, no EntryCoef or upgrade call yet
CoefIdle == calc_arg = None /\ coef_data = CoefData

\* No panel built
PanelIdle == panel = None

\* No movement helper called, nothing held down
BaseIdle == held = {} /\ peak = 0 /\ nav = None /\ nav_ret = NoResult

\* Nothing of the parts modelled further down is under way
\* No monthly card check is modelled
CardIdle == card = None
OthersIdle == CoefIdle /\ PanelIdle /\ BaseIdle /\ CardIdle

\* No Calculator call is under way
CalcIdle ==
    /\ calc_op = "" /\ calc_profile = None /\ calc_coef = None
    /\ calc_threshold = Zero /\ calc_result = None

\* A settings file: missing, unreadable as YAML, or a document of items
FileMissing == [kind |-> "missing", items |-> <<>>]
FileMalformed == [kind |-> "malformed", items |-> <<>>]
FileDoc(items) == [kind |-> "doc", items |-> items]

\* No settings call made yet
ConfIdle ==
    /\ config_file = FileMissing /\ disk_writable = TRUE
    /\ conf_op = "" /\ conf_key = "" /\ conf_result = NoResult
    /\ last_set = NoConf /\ saved_set = NoConf /\ file_before = FileMissing

\* Both catalogs were read and both modules imported
Loaded ==
    /\ stat_file = "ok" /\ coef_file = "ok"
    /\ load_pc = {"profile", "stats"}
    /\ lookup_op = "" /\ lookup_result = None

Init ==
    /\ TaskInit
    /\ OthersIdle
    /\ CalcIdle
    /\ ConfIdle
    /\ Loaded
    /\ stats_data = FullCatalog
    /\ legacy_mode \in BOOLEAN
    \* legacy_run reads no user setting
    /\ user_config \in IF legacy_mode THEN {NoConf} ELSE UserConfigs

\* run without its in-team check
RunTargetUnchecked(b, legacy) ==
    IF legacy THEN "legacy_run" ELSE "smart_enhance_run"

\* Where run goes after the in-team check answered b
RunTarget(b, legacy) ==
    IF b THEN "done"
    ELSE IF legacy THEN "legacy_run"
    ELSE "smart_enhance_run"

Run ==
    /\ pc = "run"
    /\ \E b \in BOOLEAN :
        /\ in_team' = b
        /\ pc' = RunTarget(b, legacy_mode)
        /\ last' = IF b THEN "log_warning:open_panel"
                   ELSE IF legacy_mode THEN "log_info:legacy_mode" ELSE last
    /\ UNCHANGED <<ret, ran, smartVars, legacyVars, envVars>>

(***************************************************************************)
(* smart_enhance_run                                                       *)
(***************************************************************************)
max_loops == 100
MaxLevel == 25

\* StatsManager.get_user_conf
GetUserConf(cfg, key, default) == IF key \in DOMAIN cfg THEN cfg[key] ELSE default

Act(op, arg) == [op |-> op, arg |-> arg]
NextEcho == <<Act("next_echo", 0), Act("sleep", 15)>>

\* Variants of the branches: a failed scan and a discard that go to the next
\* echo whatever auto_next is, an enhance that tunes whatever auto_tune is
ScanFailBranchAlwaysNext(an) == [acts |-> NextEcho, cont |-> TRUE]
DiscardBranchAlwaysNext(an) == [acts |-> NextEcho, cont |-> TRUE]
EnhanceBranchAlwaysTune(at) ==
    [acts |-> <<Act("enhance", 5), Act("tune", 0), Act("sleep", 20)>>, cont |-> TRUE]

\* What each branch of the loop body issues, and whether the loop goes on
ScanFailBranch(an) ==
    IF an THEN [acts |-> NextEcho, cont |-> TRUE] ELSE [acts |-> <<>>, cont |-> FALSE]
DiscardBranch(an) ==
    IF an THEN [acts |-> NextEcho, cont |-> TRUE] ELSE [acts |-> <<>>, cont |-> FALSE]
MaxLevelBranch(an) ==
    IF an THEN [acts |-> NextEcho, cont |-> TRUE] ELSE [acts |-> <<>>, cont |-> FALSE]
EnhanceBranch(at) ==
    [acts |-> <<Act("enhance", 5)>> \o (IF at THEN <<Act("tune", 0)>> ELSE <<>>)
              \o <<Act("sleep", 20)>>,
     cont |-> TRUE]

\* expected_score / max_potential of lines 79-87
ScoreRatio(sd, p, c) ==
    LET expected_score == GetExpectedScore(sd, p, c)
        potential == GetMaxPossibleScore(sd, EchoProfile(0, ""), c)
        max_potential == IF RLe(potential, Zero) THEN One ELSE potential
    IN  IF Raised(expected_score) THEN expected_score
        ELSE RDiv(expected_score, max_potential)

\* A loop condition that lets one more iteration through
LoopGuardOffByOne(n) == n <= max_loops

\* while loop_count < max_loops
LoopGuard(n) == n < max_loops

SmartStart ==
    /\ pc = "smart_enhance_run"
    /\ target_role' = GetUserConf(user_config, "target_role", "Default")
    /\ threshold' = GetUserConf(user_config, "threshold", Rat(4, 5))
    /\ auto_tune' = GetUserConf(user_config, "auto_tune", TRUE)
    /\ auto_next' = GetUserConf(user_config, "auto_next", FALSE)
    /\ coef' = EntryCoef(CoefData, target_role')
    /\ ran' = ran \cup {"smart"}
    /\ IF Raised(coef')
       THEN pc' = "raised" /\ last' = "raise:ValueError"
       ELSE pc' = "loop" /\ last' = "log_info:start"
    /\ loop_count' = 0
    /\ UNCHANGED <<ret, in_team, profile, score_ratio, scans, acts, evaluated,
                   legacyVars, envVars>>

Scan ==
    /\ pc = "loop"
    /\ LoopGuard(loop_count)
    /\ loop_count' = loop_count + 1
    /\ \E r \in ScanResults :
        /\ profile' = r
        /\ pc' = IF IsNone(r) THEN "scan_failed" ELSE "evaluate"
    /\ scans' = scans + 1
    /\ acts' = <<>>
    /\ evaluated' = FALSE
    /\ score_ratio' = None
    /\ last' = "scan"
    /\ UNCHANGED <<ret, in_team, ran, target_role, threshold, auto_tune, auto_next,
                   coef, legacyVars, envVars>>

LoopExit ==
    /\ pc = "loop"
    /\ ~LoopGuard(loop_count)
    /\ pc' = "finish"
    /\ UNCHANGED <<ret, in_team, ran, last, smartVars, legacyVars, envVars>>

\* One branch of the loop body: its actions, then the next scan or the end
Branch(b, stoplog) ==
    /\ acts' = acts \o b.acts
    /\ pc' = IF b.cont THEN "loop" ELSE "finish"
    /\ last' = IF b.cont THEN "sleep" ELSE stoplog
    /\ UNCHANGED <<ret, in_team, ran, target_role, threshold, auto_tune, auto_next,
                   coef, loop_count, profile, score_ratio, scans, evaluated,
                   legacyVars, envVars>>

\* The enhance branch without its level check
EnhanceAnyLevel ==
    /\ pc = "decide"
    /\ ~RLt(score_ratio, threshold)
    /\ Branch(EnhanceBranch(auto_tune), "")

ScanFailed ==
    /\ pc = "scan_failed"
    /\ Branch(ScanFailBranch(auto_next), "log_warning:scan_failed")

Evaluate ==
    /\ pc = "evaluate"
    /\ score_ratio' = ScoreRatio(stats_data, profile, coef)
    /\ IF Raised(score_ratio')
       THEN pc' = "raised" /\ evaluated' = evaluated /\ last' = "raise:ZeroDivisionError"
       ELSE pc' = "decide" /\ evaluated' = TRUE /\ last' = "log_info:score"
    /\ UNCHANGED <<ret, in_team, ran, target_role, threshold, auto_tune, auto_next,
                   coef, loop_count, profile, scans, acts, legacyVars, envVars>>

Discard ==
    /\ pc = "decide"
    /\ RLt(score_ratio, threshold)
    /\ Branch(DiscardBranch(auto_next), "log_info:auto_next_disabled")

Enhance ==
    /\ pc = "decide"
    /\ ~RLt(score_ratio, threshold)
    /\ profile.level < MaxLevel
    /\ Branch(EnhanceBranch(auto_tune), "")

MaxLevelReached ==
    /\ pc = "decide"
    /\ ~RLt(score_ratio, threshold)
    /\ ~(profile.level < MaxLevel)
    /\ Branch(MaxLevelBranch(auto_next), "log_info:max_level")

Finish ==
    /\ pc = "finish"
    /\ last' = "log_info:task_finished"
    /\ pc' = "done"
    /\ UNCHANGED <<ret, in_team, ran, smartVars, legacyVars, envVars>>

(***************************************************************************)
(* legacy_run and do_handle_pop_up.  Times are tenths of a second.         *)
(***************************************************************************)
PopUpTimeOut == 60      \* time_out=6 of both wait_until calls
ConfirmSleep == 10      \* after_sleep=1 of the confirm click
FallbackSleep == 5      \* after_sleep=0.5 of the fallback clicks

Min(a, b) == IF a < b THEN a ELSE b

\* A handler that looks for the enhance button and the red dot first
DoHandlePopUpOkFirst(s, screen) ==
    IF screen \cap {"echo_enhance_btn", "red_dot"} # {}
    THEN [result |-> "ok", clicks |-> <<>>, sleep |-> 0]
    ELSE IF "echo_enhance_confirm" \in screen
    THEN [result |-> NoResult, clicks |-> <<"echo_enhance_confirm">>, sleep |-> ConfirmSleep]
    ELSE IF "echo_merge" \in screen
    THEN [result |-> "exit", clicks |-> <<>>, sleep |-> 0]
    ELSE IF s = 1
    THEN [result |-> NoResult, clicks |-> <<"0.51,0.87">>, sleep |-> FallbackSleep]
    ELSE [result |-> NoResult, clicks |-> <<"0.04,0.16">>, sleep |-> FallbackSleep]

\* A legacy_run that goes on to the red dot after 'exit'
AfterPopUpIgnoresExit(s, h) == IF s = 1 THEN "red_dot" ELSE "done"

\* do_handle_pop_up(step) on a frame showing the features `screen`: the value
\* returned, the clicks made and the time slept
DoHandlePopUp(s, screen) ==
    IF "echo_enhance_confirm" \in screen
    THEN [result |-> NoResult, clicks |-> <<"echo_enhance_confirm">>, sleep |-> ConfirmSleep]
    ELSE IF screen \cap {"echo_enhance_btn", "red_dot"} # {}
    THEN [result |-> "ok", clicks |-> <<>>, sleep |-> 0]
    ELSE IF "echo_merge" \in screen
    THEN [result |-> "exit", clicks |-> <<>>, sleep |-> 0]
    ELSE IF s = 1
    THEN [result |-> NoResult, clicks |-> <<"0.51,0.87">>, sleep |-> FallbackSleep]
    ELSE [result |-> NoResult, clicks |-> <<"0.04,0.16">>, sleep |-> FallbackSleep]

\* Where legacy_run goes once the wait_until of step s has returned h
AfterPopUp(s, h) ==
    IF s = 1 /\ h # "exit" THEN "red_dot" ELSE "done"

\* Where legacy_run goes when the click loop ends
AfterClickLoop(w) == IF w THEN "popup" ELSE "red_dot"

FindEnhance ==
    /\ pc = "legacy_run"
    /\ ran' = ran \cup {"legacy"}
    /\ \E found \in BOOLEAN :
        /\ enhance_button' = found
        /\ pc' = IF found THEN "click_loop" ELSE "done"
    /\ wait' = FALSE
    /\ UNCHANGED <<ret, in_team, last, smartVars, step, elapsed, handled, enh_clicks,
                   frame, ltrace, clicks, pop_screen, pop_step, pop_result,
                   pop_clicks, envVars>>

\* The target-level indicator is on the frame: click, sleep 0.5, look again
ClickEnhance ==
    /\ pc = "click_loop"
    /\ enh_clicks' = Min(enh_clicks + 1, MaxClicks)
    /\ frame' = 1 - frame
    /\ wait' = TRUE
    /\ last' = "click:enhance_button"
    /\ UNCHANGED <<pc, ret, in_team, ran, smartVars, enhance_button, step, elapsed,
                   handled, ltrace, clicks, pop_screen, pop_step, pop_result,
                   pop_clicks, envVars>>

\* The target-level indicator is not on the frame
LeaveClickLoop ==
    /\ pc = "click_loop"
    /\ pc' = AfterClickLoop(wait)
    /\ step' = IF wait THEN 1 ELSE step
    /\ elapsed' = 0
    /\ UNCHANGED <<ret, in_team, ran, last, smartVars, enhance_button, wait, handled,
                   enh_clicks, frame, ltrace, clicks, pop_screen, pop_step,
                   pop_result, pop_clicks, envVars>>

\* One call of do_handle_pop_up by wait_until, on the frame `screen`
HandlePopUp ==
    /\ pc = "popup"
    /\ elapsed < PopUpTimeOut
    /\ \E screen \in SUBSET Features :
        LET r == DoHandlePopUp(step, screen)
        IN  /\ pop_screen' = screen
            /\ pop_step' = step
            /\ pop_result' = r.result
            /\ pop_clicks' = r.clicks
            /\ clicks' = clicks + Len(r.clicks)
            /\ elapsed' = elapsed + r.sleep
            /\ last' = IF r.clicks # <<>> THEN "click:" \o r.clicks[1] ELSE "log_info:pop_up"
            /\ IF r.result # NoResult
               THEN /\ handled' = r.result
                    /\ pc' = AfterPopUp(step, r.result)
                    /\ ret' = IF pc' = "done" THEN "True" ELSE ret
               ELSE UNCHANGED <<handled, pc, ret>>
    /\ ltrace' = IF elapsed = 0 THEN Append(ltrace, <<"handler", step>>) ELSE ltrace
    /\ UNCHANGED <<in_team, ran, smartVars, enhance_button, wait, step, enh_clicks,
                   frame, envVars>>

\* wait_until gives up after time_out and returns None
PopUpTimedOut ==
    /\ pc = "popup"
    /\ ~(elapsed < PopUpTimeOut)
    /\ handled' = NoResult
    /\ pc' = AfterPopUp(step, NoResult)
    /\ ret' = IF pc' = "done" THEN "True" ELSE ret
    /\ UNCHANGED <<in_team, ran, last, smartVars, enhance_button, wait, step, elapsed,
                   enh_clicks, frame, ltrace, clicks, pop_screen, pop_step,
                   pop_result, pop_clicks, envVars>>

\* Line 144: wait for, or look for, the red dot; click the tuning point if found
RedDot ==
    /\ pc = "red_dot"
    /\ \E found \in BOOLEAN :
        IF found
        THEN /\ ltrace' = ltrace \o <<<<"red_dot", 1>>, <<"click", 1>>>>
             /\ clicks' = clicks + 1
             /\ last' = "click:0.04,0.29"
             /\ pc' = "relocate"
             /\ ret' = ret
        ELSE /\ ltrace' = Append(ltrace, <<"red_dot", 0>>)
             /\ pc' = "done"
             /\ ret' = "True"
             /\ UNCHANGED <<clicks, last>>
    /\ UNCHANGED <<in_team, ran, smartVars, enhance_button, wait, step, elapsed,
                   handled, enh_clicks, frame, pop_screen, pop_step, pop_result,
                   pop_clicks, envVars>>

\* Lines 147-149: find the enhance button again and click it
Relocate ==
    /\ pc = "relocate"
    /\ \E found \in BOOLEAN :
        /\ enhance_button' = found
        /\ IF found
           THEN /\ ltrace' = Append(ltrace, <<"click", 2>>)
                /\ clicks' = clicks + 1
                /\ last' = "click:enhance_button"
                /\ pc' = "popup"
                /\ step' = 2
                /\ elapsed' = 0
                /\ ret' = ret
           ELSE /\ pc' = "done"
                /\ ret' = "True"
                /\ UNCHANGED <<ltrace, clicks, last, step, elapsed>>
    /\ UNCHANGED <<in_team, ran, smartVars, wait, handled, enh_clicks, frame,
                   pop_screen, pop_step, pop_result, pop_clicks, envVars>>

(***************************************************************************)
(* Specifications                                                          *)
(***************************************************************************)
Next ==
    \/ Run
    \/ SmartStart \/ Scan \/ LoopExit \/ ScanFailed \/ Evaluate
    \/ Discard \/ Enhance \/ MaxLevelReached \/ Finish
    \/ FindEnhance \/ ClickEnhance \/ LeaveClickLoop \/ HandlePopUp
    \/ PopUpTimedOut \/ RedDot \/ Relocate

Spec == Init /\ [][Next]_vars

\* legacy_run alone.  The task is the only thread: it takes its next step
\* whenever it has one
LegacyInit == Init /\ legacy_mode
LegacyNext ==
    \/ Run
    \/ FindEnhance \/ ClickEnhance \/ LeaveClickLoop \/ HandlePopUp
    \/ PopUpTimedOut \/ RedDot \/ Relocate
LegacyFairSpec == LegacyInit /\ [][LegacyNext]_vars /\ WF_vars(LegacyNext)

(***************************************************************************)
(* The Calculator on its own: calls with arguments of bounded sets         *)
(***************************************************************************)
\* The stat tables of the calls have the first keys of this order
CalcKeyOrder ==
    <<"cri_rate", "cri_dmg", "atk_rate", "atk_num", "hp_num", "resonance_burst",
      "def_num", "hp_rate", "def_rate", "normal_dmg", "charged_atk",
      "resonance_skill", "resonance_eff">>
CalcKeyCount == 6
ShortKeyCount == 4

CalcCatalog(n) ==
    Restrict(FullCatalog, {CalcKeyOrder[i] : i \in 1..n})

\* A table with more keys than the 5 slots, one with fewer, and the empty
\* table that a failed load leaves
CalcCatalogs == {CalcCatalog(CalcKeyCount), CalcCatalog(ShortKeyCount), CalcCatalog(0)}

\* The profiles with some stats of the table rolled, at their first value
CalcProfiles(sd) ==
    {WithStats(EchoProfile(0, ""), [k \in S |-> sd[k].distribution[1].value]) :
        S \in SUBSET DOMAIN sd}

CalcCoefs ==
    {EntryCoef(CoefData, "Default"), EntryCoef(CoefData, "Cartethyia"),
     EntryCoef(CoefData, "Jiyan")}

CalcThresholds == {Zero, RInt(12), RInt(30), RInt(200)}

\* A call is about to be made with arguments of the sets above
CalcInit ==
    /\ TaskInit
    /\ OthersIdle
    /\ ConfIdle
    /\ Loaded
    /\ stats_data \in CalcCatalogs
    /\ legacy_mode = FALSE
    /\ user_config = NoConf
    /\ calc_op = "" /\ calc_result = None
    /\ calc_profile \in CalcProfiles(stats_data)
    /\ calc_coef \in CalcCoefs
    /\ calc_threshold \in CalcThresholds

ProbAboveScoreCall ==
    /\ calc_op = ""
    /\ calc_op' = "prob_above_score"
    /\ calc_result' = ProbAboveScore(stats_data, calc_profile, calc_coef, calc_threshold)
    /\ UNCHANGED <<taskVars, stats_data, calc_profile, calc_coef, calc_threshold>>

GetExpectedScoreCall ==
    /\ calc_op = ""
    /\ calc_op' = "get_expected_score"
    /\ calc_result' = GetExpectedScore(stats_data, calc_profile, calc_coef)
    /\ UNCHANGED <<taskVars, stats_data, calc_profile, calc_coef, calc_threshold>>

GetScoreCall ==
    /\ calc_op = ""
    /\ calc_op' = "get_score"
    /\ calc_result' = GetScore(calc_profile, calc_coef)
    /\ UNCHANGED <<taskVars, stats_data, calc_profile, calc_coef, calc_threshold>>

ProfileGetScoreCall ==
    /\ calc_op = ""
    /\ calc_op' = "profile_get_score"
    /\ calc_result' = ProfileGetScore(calc_profile, calc_coef)
    /\ UNCHANGED <<taskVars, stats_data, calc_profile, calc_coef, calc_threshold>>

GetMaxPossibleScoreCall ==
    /\ calc_op = ""
    /\ calc_op' = "get_max_possible_score"
    /\ calc_result' = GetMaxPossibleScore(stats_data, calc_profile, calc_coef)
    /\ UNCHANGED <<taskVars, stats_data, calc_profile, calc_coef, calc_threshold>>

CalcNext ==
    \/ ProbAboveScoreCall
    \/ GetExpectedScoreCall
    \/ GetMaxPossibleScoreCall
    \/ GetScoreCall
    \/ ProfileGetScoreCall

CalcSpec == CalcInit /\ [][CalcNext]_vars

(***************************************************************************)
(* EchoProfile.from_dict and EchoProfile.validate (profile.py)             *)
(***************************************************************************)
\* The stat fields in the order the dataclass declares them: the order of
\* __dict__
StatFieldOrder ==
    <<"atk_rate", "atk_num", "def_rate", "def_num", "hp_rate", "hp_num",
      "cri_rate", "cri_dmg", "normal_dmg", "charged_atk", "resonance_skill",
      "resonance_burst", "resonance_eff">>

\* The keys of echo_data (echo.json)
EchoNames == {"Crownless", "Lampylumen Myriad"}

\* The attributes of a profile that are no dataclass field
ExtraOf(p) == IF "extra" \in DOMAIN p THEN p.extra ELSE EmptyTable

\* from_dict: setattr for every item, a field or not
FromDict(p, data) ==
    [level |-> IF "level" \in DOMAIN data THEN data["level"] ELSE p.level,
     name |-> IF "name" \in DOMAIN data THEN data["name"] ELSE p.name,
     stats |-> [k \in StatKeys |-> IF k \in DOMAIN data THEN data[k] ELSE p.stats[k]],
     extra |-> Override(ExtraOf(p),
                        Restrict(data, DOMAIN data \ ({"level", "name"} \cup StatKeys)))]

\* A set of keys as a sequence, in some order
RECURSIVE SeqOf(_)
SeqOf(S) ==
    IF S = {} THEN <<>>
    ELSE LET x == CHOOSE y \in S : TRUE IN <<x>> \o SeqOf(S \ {x})

\* The items of __dict__ after level and name: the stat fields, then the
\* other attributes
EntryItems(p) ==
    [i \in DOMAIN StatFieldOrder |-> <<StatFieldOrder[i], p.stats[StatFieldOrder[i]]>>]
    \o LET ex == ExtraOf(p)
            ks == SeqOf(DOMAIN ex)
        IN  [i \in DOMAIN ks |-> <<ks[i], ex[ks[i]]>>]

\* A value test that takes every value as listed
MatchedAlways(sd, key, value) == TRUE

\* Lines 156-160: the value is one of the distribution of the stat
Matched(sd, key, value) ==
    \E i \in DOMAIN sd[key].distribution : sd[key].distribution[i].value = value

Returns(b) == [value |-> b]

\* Lines 152-166: the loop over the entries from the i-th on
RECURSIVE ValidateEntries(_, _, _)
ValidateEntries(sd, items, i) ==
    IF i > Len(items) THEN Returns(TRUE)
    ELSE IF items[i][2] = 0 THEN ValidateEntries(sd, items, i + 1)
    ELSE IF items[i][1] \notin DOMAIN sd THEN KeyError
    ELSE IF ~Matched(sd, items[i][1], items[i][2]) THEN Returns(FALSE)
    ELSE ValidateEntries(sd, items, i + 1)

\* EchoProfile.validate, with echo_data's keys ed and stat_data sd
Validate(ed, sd, p) ==
    LET items == EntryItems(p)
        num_non_zero == Cardinality({i \in DOMAIN items : items[i][2] # 0})
    IN  IF ~(0 <= p.level /\ p.level <= 25) THEN Returns(FALSE)
        ELSE IF p.name \notin ed THEN Returns(FALSE)
        ELSE IF num_non_zero # p.level \div 5 THEN Returns(FALSE)
        ELSE ValidateEntries(sd, items, 1)

\* A validate that rounds the level down to a step of 5
AfterValidateRounded(p) == [p EXCEPT !.level = (@ \div 5) * 5]

\* The profile after validate: lines 130-166 assign no attribute
AfterValidate(p) == p

\* The one-item dicts given to from_dict: a level, a name, a value of one of
\* three stats (0, or one of 7, 10, 16, 40: each stat lists some of them and
\* not the others), or an attribute that is no field
FromDictItems ==
    {[k \in {"level"} |-> l] : l \in {-5, 0, 5, 7, 10, 15, 25, 30}}
    \cup {[k \in {"name"} |-> n] : n \in {"", "Crownless", "No Such Echo"}}
    \cup {[k \in {key} |-> v] :
            key \in {"cri_rate", "cri_dmg", "atk_num"},
            v \in {0, 7, 10, 16, 40}}
    \cup {[k \in {"set_name"} |-> v] : v \in {0, 1}}

\* A fresh profile, the catalogs loaded
ValidateInit ==
    /\ TaskInit
    /\ OthersIdle
    /\ ConfIdle
    /\ Loaded
    /\ stats_data = FullCatalog
    /\ legacy_mode = FALSE
    /\ user_config = NoConf
    /\ calc_op = "" /\ calc_result = None
    /\ calc_profile = EchoProfile(0, "")
    /\ calc_coef = None /\ calc_threshold = Zero

FromDictCall ==
    /\ calc_op = ""
    /\ \E data \in FromDictItems : calc_profile' = FromDict(calc_profile, data)
    /\ UNCHANGED <<taskVars, stats_data, calc_op, calc_coef, calc_threshold,
                   calc_result>>

ValidateCall ==
    /\ calc_op = ""
    /\ calc_op' = "validate"
    /\ calc_result' = Validate(EchoNames, stats_data, calc_profile)
    /\ calc_profile' = AfterValidate(calc_profile)
    /\ UNCHANGED <<taskVars, stats_data, calc_coef, calc_threshold>>

ValidateNext ==
    \/ FromDictCall
    \/ ValidateCall

ValidateSpec == ValidateInit /\ [][ValidateNext]_vars

(***************************************************************************)
(* EchoProfile.upgrade (profile.py).  A line of text is the sequence of    *)
(* its characters.                                                         *)
(***************************************************************************)
NameError == [err |-> "NameError"]

Digits == {"0", "1", "2", "3", "4", "5", "6", "7", "8", "9"}
DigitValue(c) ==
    CASE c = "0" -> 0 [] c = "1" -> 1 [] c = "2" -> 2 [] c = "3" -> 3
      [] c = "4" -> 4 [] c = "5" -> 5 [] c = "6" -> 6 [] c = "7" -> 7
      [] c = "8" -> 8 [] OTHER -> 9

\* _extract_number: the first match of \d+\.?\d? as a float, or None.  A
\* number with no fraction is the integer, any other the exact fraction.
ExtractNumber(line) ==
    LET starts == {i \in DOMAIN line : line[i] \in Digits}
    IN  IF starts = {} THEN None
        ELSE LET i == CHOOSE x \in starts : \A y \in starts : x <= y
                 \* the last digit of the run that starts at i
                 j == CHOOSE x \in i..Len(line) :
                        /\ \A y \in i..x : line[y] \in Digits
                        /\ (x = Len(line) \/ line[x + 1] \notin Digits)
                 whole[y \in i..j] ==
                    IF y = i THEN DigitValue(line[y])
                    ELSE 10 * whole[y - 1] + DigitValue(line[y])
                 tenth == IF /\ j + 2 <= Len(line)
                             /\ line[j + 1] = "."
                             /\ line[j + 2] \in Digits
                          THEN DigitValue(line[j + 2]) ELSE 0
             IN  [value |-> IF tenth = 0 THEN whole[j]
                            ELSE Rat(10 * whole[j] + tenth, 10)]

\* name in line
Contains(line, name) ==
    \E i \in 0..(Len(line) - Len(name)) : SubSeq(line, i + 1, i + Len(name)) = name

\* _extract_entry: the key of the longest display name that is in the line
\* and whose type agrees with the % sign of the line, the first such key in
\* the order of the table; NoResult when there is none
ExtractEntry(sd, line) ==
    LET percent == \E i \in DOMAIN line : line[i] = "%"
        order == SelectSeq(StatFieldOrder, LAMBDA k : k \in DOMAIN sd)
        fits(k) == /\ Contains(line, sd[k].name)
                   /\ percent = (sd[k].type = "percentage")
                   /\ Len(sd[k].name) > 0
        cand == {i \in DOMAIN order : fits(order[i])}
    IN  IF cand = {} THEN NoResult
        ELSE order[CHOOSE i \in cand :
                     \A j \in cand :
                        \/ Len(sd[order[j]].name) < Len(sd[order[i]].name)
                        \/ (Len(sd[order[j]].name) = Len(sd[order[i]].name) /\ i <= j)]

\* Lines 252-258: the deepcopy with the level and the parsed entry set
UpgradeCopy(sd, p, level, new_entry) ==
    LET key == ExtractEntry(sd, new_entry)
        number == ExtractNumber(new_entry)
        tmp_profile == FromDict(p, [k \in {"level"} |-> level])
    IN  IF number # None /\ number.value # 0
        THEN FromDict(tmp_profile, [k \in {key} |-> number.value])
        ELSE tmp_profile

\* EchoProfile.upgrade: the copy, None, or what was raised.  No name logger
\* is bound in the module (lines 16-18 are comments).
Upgrade(ed, sd, p, level, new_entry) ==
    IF ExtractEntry(sd, new_entry) = NoResult THEN NameError
    ELSE LET tmp_profile == UpgradeCopy(sd, p, level, new_entry)
             valid == Validate(ed, sd, tmp_profile)
         IN  IF Raised(valid) THEN valid
             ELSE IF valid.value THEN Returns(tmp_profile)
             ELSE Returns(None)

\* An upgrade that sets the level and the entry on the receiver itself
AfterUpgradeInPlace(sd, p, level, new_entry) ==
    IF ExtractEntry(sd, new_entry) = NoResult THEN p
    ELSE UpgradeCopy(sd, p, level, new_entry)

\* The receiver after upgrade: every assignment goes to the deepcopy
AfterUpgrade(sd, p, level, new_entry) == p

\* The profiles upgrade is called on, and its arguments
UpgradeReceivers ==
    {FromDict(WithStats(EchoProfile(l, n), sub), EmptyTable) :
        l \in {0, 5}, n \in {"", "Crownless"},
        sub \in {EmptyTable, [k \in {"cri_rate"} |-> 8], [k \in {"atk_num"} |-> 40]}}
UpgradeLevels == {5, 7, 10}
UpgradeLines ==
    {<<"C", "R", " ", "8", "%">>,               \* cri_rate, listed
     <<"C", "R", "D", " ", "1", "6", "%">>,     \* cri_dmg by the longest name
     <<"A", "T", " ", "4", "0">>,               \* atk_num: no % sign
     <<"A", "T", " ", "8", ".", "0", "%">>,     \* atk_rate
     <<"+", "5", " ", "D", "F", "3", "0">>,     \* def_num, the first number is 5
     <<"A", "T", " ", "7", "%">>,               \* a value atk_rate does not list
     <<"D", "F", " ", "0", "%">>,               \* the number 0 is not set
     <<"H", "P", " ", "%">>,                    \* no number
     <<"C", "R", " ", "1", "0">>,               \* cri_rate is a percentage
     <<"X", "Y", " ", "5">>,                    \* no stat of the table
     <<>>}

UpgradeInit ==
    /\ TaskInit
    /\ ConfIdle
    /\ Loaded
    /\ stats_data = FullCatalog
    /\ legacy_mode = FALSE
    /\ user_config = NoConf
    /\ calc_op = "" /\ calc_result = None
    /\ calc_profile \in UpgradeReceivers
    /\ calc_coef = None /\ calc_threshold = Zero
    /\ calc_arg \in [level : UpgradeLevels, new_entry : UpgradeLines]
    /\ coef_data = CoefData
    /\ PanelIdle
    /\ CardIdle
    /\ BaseIdle

UpgradeCall ==
    /\ calc_op = ""
    /\ calc_op' = "upgrade"
    /\ calc_result' = Upgrade(EchoNames, stats_data, calc_profile, calc_arg.level,
                              calc_arg.new_entry)
    /\ calc_profile' = AfterUpgrade(stats_data, calc_profile, calc_arg.level,
                                    calc_arg.new_entry)
    /\ UNCHANGED <<coreVars, user_config, confVars, calc_coef, calc_threshold,
                   coefVars, panelVars, baseVars, cardVars>>

UpgradeSpec == UpgradeInit /\ [][UpgradeCall]_vars

(***************************************************************************)
(* EntryCoef objects (profile.py), on their own                            *)
(***************************************************************************)
\* Tables of the shape of entry_coef.yml: the damage sources of CoefData,
\* with any sparse mapping for Default and any for the characters
CoefCatalogs ==
    {CoefData} \cup
    {[c \in DOMAIN CoefData |->
        [dmg_source |-> CoefData[c].dmg_source,
         coef |-> IF c = "Default" THEN d ELSE m]] :
        d \in UNION {[D -> {Half}] : D \in SUBSET {"atk_rate", "cri_rate"}},
        m \in UNION {[D -> {Zero, RInt(2)}] :
                        D \in SUBSET {"atk_num", "hp_rate", "cri_dmg"}}}

\* The names given to EntryCoef and set_char: catalogued or not
CoefNames == {"Default", "Cartethyia", "Jiyan", "Taoqi", "Nobody"}

\* No EntryCoef object yet
CoefInit ==
    /\ TaskInit
    /\ ConfIdle
    /\ Loaded
    /\ stats_data = FullCatalog
    /\ legacy_mode = FALSE
    /\ user_config = NoConf
    /\ CalcIdle
    /\ calc_arg = None
    /\ coef_data \in CoefCatalogs
    /\ PanelIdle
    /\ CardIdle
    /\ BaseIdle

\* EntryCoef(char_name): no object when __init__ raises
EntryCoefCall ==
    \E char_name \in CoefNames :
        LET made == EntryCoef(coef_data, char_name)
        IN  /\ calc_coef = None
            /\ calc_op' = "EntryCoef"
            /\ calc_arg' = char_name
            /\ calc_coef' = IF Raised(made) THEN calc_coef ELSE made
            /\ calc_result' = IF Raised(made) THEN made ELSE None
            /\ UNCHANGED <<coreVars, user_config, confVars, calc_profile,
                           calc_threshold, coef_data, panelVars, baseVars, cardVars>>

\* coef.set_char(char_name) on the object: line 79 raises before any setattr
SetCharCall ==
    \E char_name \in CoefNames :
        LET set == SetChar(coef_data, calc_coef, char_name)
        IN  /\ calc_coef # None
            /\ calc_op' = "set_char"
            /\ calc_arg' = char_name
            /\ calc_coef' = IF Raised(set) THEN calc_coef ELSE set
            /\ calc_result' = IF Raised(set) THEN set ELSE None
            /\ UNCHANGED <<coreVars, user_config, confVars, calc_profile,
                           calc_threshold, coef_data, panelVars, baseVars, cardVars>>

CoefSpec == CoefInit /\ [][EntryCoefCall \/ SetCharCall]_vars

(***************************************************************************)
(* The user settings of StatsManager (stats.py), on their own              *)
(***************************************************************************)
\* The keys of the settings in the order yaml.dump writes them (sorted): the
\* four of the panel and one it does not know
SettingKeyOrder ==
    <<"auto_next", "auto_tune", "custom_note", "target_role", "threshold">>
\* The keys the calls below are made with
SettingKeys == {"custom_note", "target_role", "threshold"}
SettingValues == {"Default", "0.8"}

\* A yaml.dump that writes the keys of the panel only
DumpKnownKeys(cfg) ==
    LET keep == SelectSeq(SettingKeyOrder,
                          LAMBDA k : k \in DOMAIN cfg /\ k \in ConfKeys)
    IN  [i \in DOMAIN keep |-> <<keep[i], cfg[keep[i]]>>]

\* yaml.dump of a mapping of scalars: one item per key, keys sorted
Dump(cfg) ==
    LET keep == SelectSeq(SettingKeyOrder, LAMBDA k : k \in DOMAIN cfg)
    IN  [i \in DOMAIN keep |-> <<keep[i], cfg[keep[i]]>>]

\* yaml.safe_load(f) or {}: the mapping of the items, a later item of a key
\* replacing an earlier one
Load(items) ==
    [k \in {items[i][1] : i \in DOMAIN items} |->
        items[CHOOSE i \in DOMAIN items :
                /\ items[i][1] = k
                /\ \A j \in DOMAIN items : items[j][1] = k => j <= i][2]]

\* The mappings over the setting keys
SettingMaps ==
    UNION {[D -> SettingValues] : D \in SUBSET SettingKeys}

\* StatsManager.load_user_config: _user_config after the call
LoadUserConfig(file, cfg) ==
    CASE file.kind = "missing" -> cfg
      [] file.kind = "malformed" -> NoConf
      [] OTHER -> Load(file.items)

\* StatsManager.save_user_config: the file after the call
SaveUserConfig(file, cfg, writable) ==
    IF writable THEN FileDoc(Dump(cfg)) ELSE file

\* self._user_config[key] = value
SetItem(cfg, key, value) ==
    [k \in DOMAIN cfg \cup {key} |-> IF k = key THEN value ELSE cfg[k]]

\* The process starts with the class attribute _user_config = {} and any file
ConfInit ==
    /\ TaskInit
    /\ OthersIdle
    /\ CalcIdle
    /\ Loaded
    /\ stats_data = FullCatalog
    /\ legacy_mode = FALSE
    /\ user_config = NoConf
    /\ config_file \in {FileMissing, FileMalformed} \cup {FileDoc(Dump(m)) : m \in SettingMaps}
    /\ disk_writable \in BOOLEAN
    /\ conf_op = "" /\ conf_key = "" /\ conf_result = NoResult
    /\ last_set = NoConf
    /\ saved_set = NoConf
    /\ file_before = config_file

\* get_user_conf(key): loads first when _user_config is empty
GetUserConfCall ==
    \E key \in SettingKeys :
        /\ user_config' = IF user_config = NoConf
                           THEN LoadUserConfig(config_file, user_config)
                           ELSE user_config
        /\ last_set' = IF user_config = NoConf THEN NoConf ELSE last_set
        /\ conf_op' = "get"
        /\ conf_key' = key
        /\ conf_result' = GetUserConf(user_config', key, NoResult)
        /\ UNCHANGED <<runVars, stats_data, calcVars, loadVars, config_file,
                       disk_writable, saved_set, file_before>>

\* set_user_conf(key, value): stores, then saves
SetUserConfCall ==
    \E key \in SettingKeys, value \in SettingValues :
        /\ user_config' = SetItem(user_config, key, value)
        /\ config_file' = SaveUserConfig(config_file, user_config', disk_writable)
        /\ file_before' = config_file
        /\ last_set' = SetItem(last_set, key, value)
        /\ saved_set' = IF disk_writable THEN SetItem(saved_set, key, value)
                         ELSE saved_set
        /\ conf_op' = "set"
        /\ conf_key' = key
        /\ conf_result' = NoResult
        /\ UNCHANGED <<runVars, stats_data, calcVars, loadVars, disk_writable>>

\* load_user_config(): the settings are read from the file again
LoadUserConfigCall ==
    /\ user_config' = LoadUserConfig(config_file, user_config)
    /\ conf_op' = "load"
    /\ conf_key' = ""
    /\ conf_result' = NoResult
    /\ last_set' = NoConf
    /\ UNCHANGED <<runVars, stats_data, calcVars, loadVars, config_file,
                   disk_writable, saved_set, file_before>>

ConfNext ==
    \/ GetUserConfCall
    \/ SetUserConfCall
    \/ LoadUserConfigCall

ConfSpec == ConfInit /\ [][ConfNext]_vars

(***************************************************************************)
(* The configuration panel (echo_interface.py).  The values of the         *)
(* settings and of the widgets are written as their text.                  *)
(***************************************************************************)
\* sorted(coef_data.keys())
RoleOrder == <<"Cartethyia", "Default", "Jiyan", "Taoqi">>

\* EchoInterface.__init__: init_ui, then load_config.  A widget emits its
\* changed signal, and so saves, only when its value changes; the combo box
\* shows its first item once the items are added (before the signal is
\* connected).  Gives the widgets, _user_config and the file afterwards.
NewEchoInterface(cd, cfg, file, writable) ==
    LET roles == SelectSeq(RoleOrder, LAMBDA r : r \in DOMAIN cd)
        Save(st, key, value) ==
            LET c == SetItem(st.cfg, key, value)
            IN  [st EXCEPT !.cfg = c, !.file = SaveUserConfig(st.file, c, writable)]
        \* widget w is set to value v; key is saved when that changes w
        SetWidget(st, w, key, v) ==
            IF st.panel[w] = v THEN st
            ELSE Save([st EXCEPT !.panel[w] = v], key, v)
        s0 == [panel |-> [role_combo |-> IF roles = <<>> THEN "" ELSE roles[1],
                          threshold_spin |-> "0.0",
                          auto_tune_switch |-> "False",
                          auto_next_switch |-> "False"],
               cfg |-> IF cfg = NoConf THEN LoadUserConfig(file, cfg) ELSE cfg,
               file |-> file]
        last_role == GetUserConf(s0.cfg, "target_role", "Default")
        s1 == IF \E i \in DOMAIN roles : roles[i] = last_role
              THEN SetWidget(s0, "role_combo", "target_role", last_role)
              ELSE s0
        s2 == SetWidget(s1, "threshold_spin", "threshold",
                        GetUserConf(s1.cfg, "threshold", "0.8"))
        s3 == SetWidget(s2, "auto_tune_switch", "auto_tune",
                        GetUserConf(s2.cfg, "auto_tune", "True"))
        s4 == SetWidget(s3, "auto_next_switch", "auto_next",
                        GetUserConf(s3.cfg, "auto_next", "False"))
    IN  \* line 99: _on_role_changed(currentText()) saves the shown role
        Save(s4, "target_role", s4.panel.role_combo)

\* The settings files a panel can find
PanelFiles ==
    {FileMissing, FileMalformed} \cup
    {FileDoc(Dump(m)) :
        m \in {Override(Override(r, t), n) :
                r \in {EmptyTable} \cup {[k \in {"target_role"} |-> v] :
                                           v \in {"Default", "Jiyan", "Camellya", ""}},
                t \in {EmptyTable} \cup {[k \in {"threshold"} |-> v] : v \in {"0.5", "0.0"}},
                n \in {EmptyTable, [k \in {"auto_tune"} |-> "False"],
                       [k \in {"custom_note"} |-> "x"]}}}

\* The process has started, no setting read yet
PanelInit ==
    /\ TaskInit
    /\ CalcIdle
    /\ Loaded
    /\ CoefIdle
    /\ PanelIdle
    /\ CardIdle
    /\ BaseIdle
    /\ stats_data = FullCatalog
    /\ legacy_mode = FALSE
    /\ user_config = NoConf
    /\ config_file \in PanelFiles
    /\ disk_writable \in BOOLEAN
    /\ conf_op = "" /\ conf_key = "" /\ conf_result = NoResult
    /\ last_set = NoConf
    /\ saved_set = NoConf
    /\ file_before = config_file

\* EchoInterface(): file_before keeps the file as construction found it
EchoInterfaceInit ==
    LET built == NewEchoInterface(coef_data, user_config, config_file, disk_writable)
    IN  /\ panel = None
        /\ panel' = built.panel
        /\ user_config' = built.cfg
        /\ config_file' = built.file
        /\ file_before' = config_file
        /\ conf_op' = "panel"
        /\ UNCHANGED <<coreVars, calcVars, coefVars, baseVars, cardVars, disk_writable,
                       conf_key, conf_result, last_set, saved_set>>

\* The user picks a role in the combo box: _on_role_changed saves it
RoleChanged ==
    \E i \in DOMAIN RoleOrder :
        /\ panel # None
        /\ RoleOrder[i] \in DOMAIN coef_data
        /\ panel.role_combo # RoleOrder[i]
        /\ panel' = [panel EXCEPT !.role_combo = RoleOrder[i]]
        /\ user_config' = SetItem(user_config, "target_role", RoleOrder[i])
        /\ config_file' = SaveUserConfig(config_file, user_config', disk_writable)
        /\ conf_op' = "role"
        /\ UNCHANGED <<coreVars, calcVars, coefVars, baseVars, cardVars, disk_writable,
                       conf_key, conf_result, last_set, saved_set, file_before>>

PanelSpec == PanelInit /\ [][EchoInterfaceInit \/ RoleChanged]_vars

(***************************************************************************)
(* BaseWWTask.use_stamina (BaseWWTask.py)                                  *)
(***************************************************************************)
Click(x, y) == [op |-> "click", x |-> x, y |-> y]
DoubleX == Rat(67, 100)     \* 0.67
SingleX == Rat(32, 100)     \* 0.32

\* A can_continue that looks at the total only
CanContinueTotalOnly(once, current, must_use, total) == ~(total < once)

\* Lines 561-575, on the amounts left after the subtraction
CanContinue(once, current, must_use, total) ==
    IF total < once THEN FALSE
    ELSE IF must_use <= 0 /\ current < once THEN FALSE
    ELSE TRUE

\* use_stamina(once, must_use) when the OCR finds the doubled number or not
\* (double), get_stamina reads (current, back_up, total) and the
\* add-stamina popup shows or not (gem): what it returns and where it clicks
UseStamina(once, must_use, double, current, total, gem) ==
    LET choice == IF ~double THEN [x |-> DoubleX, used |-> once]
                  ELSE IF current >= once * 2
                  THEN [x |-> DoubleX, used |-> once * 2]
                  ELSE IF must_use > once /\ total >= once * 2
                  THEN [x |-> DoubleX, used |-> once * 2]
                  ELSE [x |-> SingleX, used |-> once]
        y == Rat(62, 100)
        confirm == Click(Rat(70, 100), Rat(71, 100))
    IN  [can_continue |-> CanContinue(once, current - choice.used,
                                      must_use - choice.used, total - choice.used),
         used |-> choice.used,
         acts |-> <<Click(choice.x, y)>> \o
                  (IF gem
                   THEN <<confirm, confirm, [op |-> "back", x |-> Zero, y |-> Zero],
                          Click(choice.x, y)>>
                   ELSE <<>>)]

\* What get_stamina can return: (-1, -1, -1) when the OCR reads nothing,
\* else the current and the backup stamina and their sum
StaminaReads ==
    {[current |-> -1, total |-> -1]} \cup
    {[current |-> c, total |-> c + b] : c \in {0, 30, 60, 120, 240}, b \in {0, 60, 480}}

StaminaInit ==
    /\ TaskInit
    /\ ConfIdle
    /\ Loaded
    /\ PanelIdle
    /\ CardIdle
    /\ BaseIdle
    /\ stats_data = FullCatalog
    /\ legacy_mode = FALSE
    /\ user_config = NoConf
    /\ coef_data = CoefData
    /\ calc_op = "" /\ calc_result = None
    /\ calc_profile = None /\ calc_coef = None /\ calc_threshold = Zero
    /\ \E once \in {40, 60}, must_use \in {0, 40, 60, 120, 180}, double \in BOOLEAN,
          read \in StaminaReads, gem \in BOOLEAN :
            calc_arg = [once |-> once, must_use |-> must_use, double |-> double,
                        current |-> read.current, total |-> read.total, gem |-> gem]

UseStaminaCall ==
    /\ calc_op = ""
    /\ calc_op' = "use_stamina"
    /\ calc_result' = UseStamina(calc_arg.once, calc_arg.must_use, calc_arg.double,
                                 calc_arg.current, calc_arg.total, calc_arg.gem)
    /\ UNCHANGED <<coreVars, user_config, confVars, calc_profile, calc_coef,
                   calc_threshold, coefVars, panelVars, baseVars, cardVars>>

StaminaSpec == StaminaInit /\ [][UseStaminaCall]_vars

(***************************************************************************)
(* The movement helpers of BaseWWTask (BaseWWTask.py).  A key event is     *)
(* <<"down", key>> or <<"up", key>>; the right mouse button is the key     *)
(* "right".  "" is the direction None.  Positions are in hundredths of the *)
(* screen, dx from its centre.                                             *)
(***************************************************************************)
MoveKeys == {"w", "a", "s", "d"}
CannotFindException == "CannotFindException"

\* What is down after the events, in their order, and the most movement
\* keys down at once on the way
RECURSIVE Play(_, _, _)
Play(h, pk, events) ==
    IF events = <<>> THEN [held |-> h, peak |-> pk]
    ELSE LET e == Head(events)
             h2 == IF e[1] = "down" THEN h \cup {e[2]} ELSE h \ {e[2]}
             n == Cardinality(h2 \cap MoveKeys)
         IN  Play(h2, IF n > pk THEN n ELSE pk, Tail(events))

\* _stop_last_direction
StopLastDirection(last_direction) ==
    IF last_direction # "" THEN <<<<"up", last_direction>>>> ELSE <<>>

\* A _walk_direction that presses the next key before it lets the last go
WalkDirectionPressFirst(last_direction, next_direction) ==
    IF next_direction # last_direction
    THEN (IF next_direction # "" THEN <<<<"down", next_direction>>>> ELSE <<>>)
         \o StopLastDirection(last_direction)
    ELSE <<>>

\* _walk_direction: the events; it returns next_direction
WalkDirection(last_direction, next_direction) ==
    IF next_direction # last_direction
    THEN StopLastDirection(last_direction)
         \o (IF next_direction # "" THEN <<<<"down", next_direction>>>> ELSE <<>>)
    ELSE <<>>

OppositeDirection(direction) ==
    CASE direction = "w" -> "s"
      [] direction = "s" -> "w"
      [] direction = "a" -> "d"
      [] direction = "d" -> "a"
      [] OTHER -> "w"

\* send_key_and_wait_f, when its wait_until (raise_if_not_found=False) finds
\* the F prompt or times out: its events and what it returns or raises
SendKeyAndWaitF(direction, raise_if_not_found, time_out, running, f_found) ==
    IF time_out <= 0 THEN [events |-> <<>>, ret |-> "None"]
    ELSE [events |-> <<<<"down", direction>>>>
                     \o (IF running THEN <<<<"down", "right">>>> ELSE <<>>)
                     \o <<<<"up", direction>>>>
                     \o (IF running THEN <<<<"up", "right">>>> ELSE <<>>),
          ret |-> IF f_found THEN "True"
                  ELSE IF raise_if_not_found THEN CannotFindException
                  ELSE "False"]

\* run_until: wait_until is given raise_if_not_found and raises at the
\* timeout when it is set; nothing after line 616 runs then
RunUntil(direction, raise_if_not_found, time_out, running, met) ==
    IF time_out <= 0 THEN [events |-> <<>>, ret |-> "None"]
    ELSE LET press == <<<<"down", direction>>>>
                      \o (IF running THEN <<<<"down", "right">>>> ELSE <<>>)
         IN  IF ~met /\ raise_if_not_found
             THEN [events |-> press, ret |-> CannotFindException]
             ELSE [events |-> press \o <<<<"up", direction>>>>
                              \o (IF running THEN <<<<"up", "right">>>> ELSE <<>>),
                   ret |-> IF met THEN "True" ELSE "False"]

\* One pass of the loop of do_walk_to_box (lines 298-367) that does not end
\* it: find_function gave find (None or a target), on_the_wall is seen or
\* not.  The locals and the events.
WalkToBoxFrame(l, find, on_wall) ==
    LET last_target == IF find # None THEN find ELSE l.last_target
        tolerance == IF l.last_direction = "" THEN 4 ELSE 7
        centered == IF last_target = None THEN l.centered
                    ELSE l.centered \/ Abs(last_target.dx) <= tolerance
        center == CASE l.last_direction = "s" -> 45
                    [] l.last_direction = "w" -> 60
                    [] OTHER -> 50
        next_direction ==
            IF last_target = None THEN OppositeDirection(l.last_direction)
            ELSE IF ~centered THEN (IF last_target.dx > 0 THEN "d" ELSE "a")
            ELSE IF last_target.y > center THEN "s" ELSE "w"
        keys == IF next_direction # l.last_direction
                THEN (IF l.last_direction # "" THEN <<<<"up", l.last_direction>>>>
                      ELSE <<>>) \o <<<<"down", next_direction>>>>
                ELSE <<>>
        start_run == ~l.running /\ next_direction = "w" /\ on_wall
        mouse == IF l.running
                 THEN (IF ~on_wall THEN <<<<"up", "right">>>> ELSE <<>>)
                 ELSE (IF start_run THEN <<<<"down", "right">>>> ELSE <<>>)
    IN  [locals |-> [l EXCEPT !.last_target = last_target, !.centered = centered,
                              !.last_direction = next_direction,
                              !.running = l.running \/ start_run],
         events |-> keys \o mouse]

\* Lines 369-378: what do_walk_to_box does after its loop
WalkToBoxStop(l, has_end, ended) ==
    [events |-> (IF l.last_direction # "" THEN <<<<"up", l.last_direction>>>> ELSE <<>>)
                \o (IF l.running THEN <<<<"up", "shift">>>> ELSE <<>>),
     ret |-> IF ~has_end THEN (IF l.last_direction # "" THEN "True" ELSE "False")
             ELSE IF ended THEN "True" ELSE "False"]

\* The next direction of walk_to_yolo_echo (lines 216-238) for the first
\* echo found
YoloDirection(last_direction, echo) ==
    LET tolerance == IF last_direction = "" THEN 5 ELSE 15
    IN  IF Abs(echo.dx) < tolerance THEN (IF echo.low THEN "s" ELSE "w")
        ELSE IF echo.dx > 0 THEN "d" ELSE "a"

MaxFrames == 3

\* What a frame can show of a target
BoxTargets == {None} \cup [dx : {-20, -5, 5}, y : {40, 48, 55, 70}]
YoloEchos == {None} \cup [dx : {-20, -10, 0, 10, 20}, low : BOOLEAN]

\* A helper is about to be called, no key is down
NavInit ==
    /\ TaskInit
    /\ CalcIdle
    /\ ConfIdle
    /\ Loaded
    /\ CoefIdle
    /\ PanelIdle
    /\ CardIdle
    /\ stats_data = FullCatalog
    /\ legacy_mode = FALSE
    /\ user_config = NoConf
    /\ held = {} /\ peak = 0 /\ nav_ret = NoResult
    /\ \E fn \in {"send_key_and_wait_f", "run_until", "do_walk_to_box",
                    "walk_to_yolo_echo"}, has_end \in BOOLEAN :
          nav = [fn |-> fn, pc |-> "call", has_end |-> has_end /\ fn = "do_walk_to_box",
                 args |-> None, frames |-> 0, last_direction |-> "",
                 running |-> FALSE, centered |-> FALSE, last_target |-> None,
                 no_echo_start |-> FALSE]

\* The effect of a call or a pass of a loop: the events are played, the
\* locals and the result are stored
NavStep(l, events, result) ==
    LET after == Play(held, peak, events)
    IN  /\ held' = after.held
        /\ peak' = after.peak
        /\ nav' = l
        /\ nav_ret' = result
        /\ UNCHANGED <<coreVars, user_config, confVars, calcVars, coefVars, panelVars,
                       cardVars>>

SendKeyAndWaitFCall ==
    \E direction \in {"w", "s"}, raise_if_not_found \in BOOLEAN, time_out \in {0, 1},
       running \in BOOLEAN, f_found \in BOOLEAN :
        LET out == SendKeyAndWaitF(direction, raise_if_not_found, time_out, running,
                                   f_found)
        IN  /\ nav.fn = "send_key_and_wait_f" /\ nav.pc = "call"
            /\ NavStep([nav EXCEPT !.pc = "done",
                                    !.args = [direction |-> direction, running |-> running,
                                              raise_if_not_found |-> raise_if_not_found]],
                       out.events, out.ret)

RunUntilCall ==
    \E direction \in {"w", "s"}, raise_if_not_found \in BOOLEAN, time_out \in {0, 1},
       running \in BOOLEAN, met \in BOOLEAN :
        LET out == RunUntil(direction, raise_if_not_found, time_out, running, met)
        IN  /\ nav.fn = "run_until" /\ nav.pc = "call"
            /\ NavStep([nav EXCEPT !.pc = "done",
                                    !.args = [direction |-> direction, running |-> running,
                                              raise_if_not_found |-> raise_if_not_found]],
                       out.events, out.ret)

\* do_walk_to_box: the first wait_until raises or not; then each pass of the
\* loop either ends it (time is up, or end_condition holds) and the code
\* after the loop runs, or walks on
DoWalkToBoxStep ==
    /\ nav.fn = "do_walk_to_box"
    /\ \/ /\ nav.pc = "call"
          /\ \E appears \in BOOLEAN :
                IF appears THEN NavStep([nav EXCEPT !.pc = "loop"], <<>>, nav_ret)
                ELSE NavStep([nav EXCEPT !.pc = "done"], <<>>, CannotFindException)
       \/ /\ nav.pc = "loop"
          /\ \E time_up \in BOOLEAN, ended \in BOOLEAN :
                /\ time_up \/ nav.frames = MaxFrames \/ (nav.has_end /\ ended)
                /\ LET out == WalkToBoxStop(nav, nav.has_end,
                                            ~time_up /\ nav.frames < MaxFrames /\ ended)
                   IN  NavStep([nav EXCEPT !.pc = "done"], out.events, out.ret)
       \/ /\ nav.pc = "loop" /\ nav.frames < MaxFrames
          /\ \E find \in BoxTargets, on_wall \in BOOLEAN :
                LET out == WalkToBoxFrame(nav, find, on_wall)
                IN  NavStep([out.locals EXCEPT !.frames = @ + 1], out.events, nav_ret)

\* walk_to_yolo_echo: a pass of the loop returns (pick_f, in_combat), leaves
\* the loop (time is up; no echo for more than 3 seconds) or walks on
WalkToYoloEchoStep ==
    /\ nav.fn = "walk_to_yolo_echo"
    /\ nav.pc \in {"call", "loop"}
    /\ \/ \E time_up \in BOOLEAN, long \in BOOLEAN :
            /\ time_up \/ nav.frames = MaxFrames \/ (nav.no_echo_start /\ long)
            /\ NavStep([nav EXCEPT !.pc = "done"],
                       StopLastDirection(nav.last_direction), "None")
       \/ \E picked \in BOOLEAN :
            /\ nav.frames < MaxFrames
            /\ NavStep([nav EXCEPT !.pc = "done"],
                       StopLastDirection(nav.last_direction),
                       IF picked THEN "True" ELSE "False")
       \/ \E echo \in YoloEchos :
            /\ nav.frames < MaxFrames
            /\ LET next_direction == IF echo = None THEN "w"
                                     ELSE YoloDirection(nav.last_direction, echo)
               IN  NavStep([nav EXCEPT !.pc = "loop", !.frames = @ + 1,
                                       !.no_echo_start = (echo = None),
                                       !.last_direction = next_direction],
                           WalkDirection(nav.last_direction, next_direction), nav_ret)

NavSpec ==
    NavInit /\ [][SendKeyAndWaitFCall \/ RunUntilCall \/ DoWalkToBoxStep
                  \/ WalkToYoloEchoStep]_vars

(***************************************************************************)
(* Loading the static catalogs at process start (stats.py, profile.py)     *)
(***************************************************************************)
\* How a catalog file reads: well-formed, not there, not YAML, or empty
FileStates == {"ok", "missing", "malformed", "empty"}

\* StatsManager._load_data: _stats_data after the call.  open and safe_load
\* raise for a missing and a malformed file; safe_load gives None for an
\* empty one
LoadData(file) ==
    CASE file = "ok" -> FullCatalog
      [] file = "empty" -> None
      [] OTHER -> EmptyTable

\* The module-level loading of profile.py: whether the import goes through
ProfileImports(sfile, cfile) ==
    sfile \in {"ok", "empty"} /\ cfile \in {"ok", "empty"}

\* StatsManager.get_stat on a table that is a mapping
GetStat(sd, key) == IF key \in DOMAIN sd THEN sd[key] ELSE None

\* What a lookup gives: a value, or the AttributeError of a method of None
Lookup(sd, op, key) ==
    IF IsNone(sd) THEN AttributeError
    ELSE CASE op = "get_all_keys" -> [value |-> GetAllKeys(sd)]
           [] op = "get_stat" -> [value |-> GetStat(sd, key)]
           [] OTHER -> [value |-> GetDistribution(sd, key)]

\* The process starts: no module imported, the files in any state
LoadInit ==
    /\ TaskInit
    /\ OthersIdle
    /\ CalcIdle
    /\ ConfIdle
    /\ legacy_mode = FALSE
    /\ user_config = NoConf
    /\ stats_data = EmptyTable
    /\ stat_file \in FileStates
    /\ coef_file \in FileStates
    /\ load_pc = {}
    /\ lookup_op = "" /\ lookup_result = None

\* import src.echo.profile: lines 20-27 run with no try around them
ImportProfile ==
    /\ "aborted" \notin load_pc /\ "profile" \notin load_pc
    /\ load_pc' = IF ProfileImports(stat_file, coef_file)
                   THEN load_pc \cup {"profile"}
                   ELSE {"aborted"}
    /\ UNCHANGED <<runVars, user_config, stats_data, calcVars, confVars, stat_file,
                   coef_file, lookup_op, lookup_result>>

\* import src.echo.stats: the singleton is made and loads its table
ImportStats ==
    /\ "aborted" \notin load_pc /\ "stats" \notin load_pc
    /\ stats_data' = LoadData(stat_file)
    /\ load_pc' = load_pc \cup {"stats"}
    /\ UNCHANGED <<runVars, user_config, calcVars, confVars, stat_file, coef_file,
                   lookup_op, lookup_result>>

\* A lookup on the loaded table
LookupCall ==
    /\ "stats" \in load_pc
    /\ \E op \in {"get_all_keys", "get_stat", "get_distribution"},
          key \in {"cri_rate", "no_such_stat"} :
        /\ lookup_op' = op
        /\ lookup_result' = Lookup(stats_data, op, key)
    /\ UNCHANGED <<runVars, user_config, stats_data, calcVars, confVars, stat_file,
                   coef_file, load_pc>>

LoadNext ==
    \/ ImportProfile
    \/ ImportStats
    \/ LookupCall

LoadSpec == LoadInit /\ [][LoadNext]_vars

(***************************************************************************)
(* get_angle_between and _navigate_based_on_angle of BaseWWTask             *)
(***************************************************************************)
\* get_angle_between: both branches of the first test compute angle - my_angle
GetAngleBetween(my_angle, angle) ==
    LET to_turn == IF my_angle > angle THEN angle - my_angle
                   ELSE -(my_angle - angle)
    IN  IF to_turn > 180 THEN to_turn - 360
        ELSE IF to_turn < -180 THEN to_turn + 360
        ELSE to_turn

\* A bucketing whose right quadrant starts at 45 degrees
DirectionOfRightAt45(angle) ==
    IF -45 <= angle /\ angle < 45 THEN "w"
    ELSE IF 45 <= angle /\ angle <= 135 THEN "d"
    ELSE IF -135 < angle /\ angle <= -45 THEN "a"
    ELSE "s"

\* Step 3 of _navigate_based_on_angle: the major direction of an angle
DirectionOf(angle) ==
    IF -45 <= angle /\ angle <= 45 THEN "w"
    ELSE IF 45 < angle /\ angle <= 135 THEN "d"
    ELSE IF -135 < angle /\ angle <= -45 THEN "a"
    ELSE "s"

\* turn_direction, with the middle click of center_camera
TurnDirection(direction) ==
    (IF direction # "w" THEN <<<<"down", direction>>, <<"up", direction>>>> ELSE <<>>)
    \o <<<<"down", "mouse_middle">>, <<"up", "mouse_middle">>>>

\* _navigate_based_on_angle; "" stands for a direction or an adjustment of
\* None.  The result is the returned triple and the key and mouse events.
NavigateBasedOnAngle(angle, current_direction, current_adjust) ==
    LET minor_adjust ==
            IF current_direction # "w" THEN ""
            ELSE IF 10 <= angle /\ angle <= 80 THEN "d"
            ELSE IF -80 <= angle /\ angle <= -10 THEN "a"
            ELSE ""
        cleanup == IF current_adjust # "" THEN <<<<"up", current_adjust>>>> ELSE <<>>
        new_direction == DirectionOf(angle)
        release == IF current_direction # ""
                   THEN <<<<"up", "mouse_right">>, <<"up", current_direction>>>>
                   ELSE <<>>
    IN  IF minor_adjust # ""
        THEN [direction |-> current_direction, adjust |-> current_adjust,
              should_continue |-> TRUE,
              events |-> <<<<"down", minor_adjust>>, <<"down", "mouse_middle">>,
                           <<"up", "mouse_middle">>, <<"up", minor_adjust>>>>]
        ELSE IF current_direction # new_direction
        THEN [direction |-> "w", adjust |-> "", should_continue |-> FALSE,
              events |-> cleanup \o release \o TurnDirection(new_direction)
                         \o <<<<"down", "w">>, <<"down", "mouse_right">>>>]
        ELSE [direction |-> current_direction, adjust |-> "",
              should_continue |-> FALSE, events |-> cleanup]

\* The headings rotate_arrow_and_find can answer
Headings == 0 .. 359
\* Target angles of calculate_angle_clockwise, in whole degrees
TargetAngles == {0, 1, 90, 179, 180, 181, 270, 359}
\* Turn angles around the limits of the tests of _navigate_based_on_angle
TurnAngles == {-180, -136, -135, -134, -81, -80, -46, -45, -44, -10, -9, 0, 9, 10,
               44, 45, 46, 80, 81, 134, 135, 136, 180}

\* The keys and the button that are down while the caller moves
HeldOnEntry(current_direction, current_adjust) ==
    (IF current_direction = "" THEN {} ELSE {current_direction, "mouse_right"})
    \cup (IF current_adjust = "" THEN {} ELSE {current_adjust})

AngleInit ==
    /\ TaskInit
    /\ ConfIdle
    /\ Loaded
    /\ PanelIdle
    /\ CardIdle
    /\ stats_data = FullCatalog
    /\ legacy_mode = FALSE
    /\ user_config = NoConf
    /\ coef_data = CoefData
    /\ calc_op = "" /\ calc_result = None
    /\ calc_profile = None /\ calc_coef = None /\ calc_threshold = Zero
    /\ peak = 0 /\ nav = None /\ nav_ret = NoResult
    /\ \/ \E my_angle \in Headings, angle \in TargetAngles :
            /\ calc_arg = [fn |-> "get_angle_between", my_angle |-> my_angle,
                           angle |-> angle, current_direction |-> "",
                           current_adjust |-> ""]
            /\ held = {}
       \/ \E angle \in TurnAngles, current_direction \in MoveKeys \cup {""},
             current_adjust \in {"", "a", "d"} :
            /\ calc_arg = [fn |-> "_navigate_based_on_angle", my_angle |-> 0,
                           angle |-> angle, current_direction |-> current_direction,
                           current_adjust |-> current_adjust]
            /\ held = HeldOnEntry(current_direction, current_adjust)

GetAngleBetweenCall ==
    /\ calc_op = ""
    /\ calc_arg.fn = "get_angle_between"
    /\ calc_op' = calc_arg.fn
    /\ calc_result' = [value |-> GetAngleBetween(calc_arg.my_angle, calc_arg.angle)]
    /\ UNCHANGED <<coreVars, user_config, confVars, calc_profile, calc_coef,
                   calc_threshold, coefVars, panelVars, baseVars, cardVars>>

NavigateBasedOnAngleCall ==
    /\ calc_op = ""
    /\ calc_arg.fn = "_navigate_based_on_angle"
    /\ calc_op' = calc_arg.fn
    /\ LET out == NavigateBasedOnAngle(calc_arg.angle, calc_arg.current_direction,
                                       calc_arg.current_adjust)
           after == Play(held, peak, out.events)
       IN  /\ calc_result' = out
           /\ held' = after.held
           /\ peak' = after.peak
    /\ UNCHANGED <<coreVars, user_config, confVars, calc_profile, calc_coef,
                   calc_threshold, coefVars, panelVars, nav, nav_ret, cardVars>>

AngleSpec == AngleInit /\ [][GetAngleBetweenCall \/ NavigateBasedOnAngleCall]_vars

(***************************************************************************)
(* The monthly card check of BaseWWTask                                     *)
(***************************************************************************)
\* Seconds of a day and of an hour; time.time() and datetime.now() are the
\* same clock, read in seconds of local time
Day == 86400
Hour == 3600
DayStart(t) == t - (t % Day)

\* A set_check_monthly_card that forgets its next_day argument
SetCheckMonthlyCardSameDay(c, next_day) ==
    IF c.enabled
    THEN LET next_four_am == DayStart(c.now) + c.hour * Hour
         IN  (IF c.now >= next_four_am THEN next_four_am + Day ELSE next_four_am) - 30
    ELSE 0

\* set_check_monthly_card: the new next_monthly_card_start
SetCheckMonthlyCard(c, next_day) ==
    IF c.enabled
    THEN LET next_four_am == DayStart(c.now) + c.hour * Hour
         IN  (IF c.now >= next_four_am \/ next_day THEN next_four_am + Day
              ELSE next_four_am) - 30
    ELSE 0

\* should_check_monthly_card
ShouldCheckMonthlyCard(c) ==
    /\ c.next_monthly_card_start > 0
    /\ 0 < c.now - c.next_monthly_card_start
    /\ c.now - c.next_monthly_card_start < 120

\* check_for_monthly_card up to its wait_until: whether it starts the wait,
\* given what in_combat and in_team_and_world answer
StartsWait(c, combat, team) == ShouldCheckMonthlyCard(c) /\ ~combat /\ team

\* The most waits inside one another that are followed
MaxDepth == 2
\* The most sleeps of the task outside a wait that are followed
MaxTicks == 3
\* Seconds between two polls of handle_monthly_card that are told apart
PollStep == 60
\* time_out of the wait_until in check_for_monthly_card
MonthlyCardTimeOut == 120

\* Lengths of the sleeps of a task
Delays == {30, 120, Hour}
\* 'Monthly Card Time'
CardHours == {0, 4, 23}
\* Times of day at which the model starts
TimesOfDay == {0, 4 * Hour - 45, 4 * Hour - 15, 4 * Hour, 4 * Hour + 89, 12 * Hour,
               Day - 45, Day - 15}

Frame(fn, c) == [fn |-> fn, began |-> c.now, pc |-> "poll"]
Top(c) == c.stack[Len(c.stack)]
Pop(c) == SubSeq(c.stack, 1, Len(c.stack) - 1)
SetTop(c, at) == [c.stack EXCEPT ![Len(c.stack)].pc = at]
WaitDepth(c) == Cardinality({i \in DOMAIN c.stack : c.stack[i].fn = "wait"})

CardInit ==
    /\ TaskInit
    /\ CalcIdle
    /\ ConfIdle
    /\ Loaded
    /\ CoefIdle
    /\ PanelIdle
    /\ BaseIdle
    /\ stats_data = FullCatalog
    /\ legacy_mode = FALSE
    /\ user_config = NoConf
    /\ \E tod \in TimesOfDay, hour \in CardHours, enabled \in BOOLEAN :
          card = [now |-> Day + tod, enabled |-> enabled, hour |-> hour,
                  next_monthly_card_start |-> 0, stack |-> <<>>, ticks |-> 0,
                  last |-> "", set_next_day |-> FALSE]

CardStep(c) ==
    /\ card' = c
    /\ UNCHANGED <<coreVars, user_config, confVars, calcVars, coefVars, panelVars,
                   baseVars>>

\* A task calls set_check_monthly_card
SetCheckMonthlyCardCall ==
    /\ card.stack = <<>>
    /\ \E next_day \in BOOLEAN :
          CardStep([card EXCEPT !.next_monthly_card_start =
                                    SetCheckMonthlyCard(card, next_day),
                                !.set_next_day = next_day, !.last = "set"])

\* A task calls sleep: check_for_monthly_card starts its wait, or the time passes
Sleep ==
    /\ card.stack = <<>>
    /\ card.ticks < MaxTicks
    /\ \E timeout \in Delays, combat \in BOOLEAN, team \in BOOLEAN :
          IF StartsWait(card, combat, team)
          THEN CardStep([card EXCEPT !.stack = <<Frame("wait", card)>>,
                                     !.last = "wait"])
          ELSE CardStep([card EXCEPT !.now = @ + timeout, !.ticks = @ + 1,
                                     !.last = "sleep"])

\* is_main calls handle_monthly_card
IsMain ==
    /\ card.stack = <<>>
    /\ card.ticks < MaxTicks
    /\ CardStep([card EXCEPT !.stack = <<Frame("is_main", card)>>, !.ticks = @ + 1,
                             !.last = "is_main"])

\* handle_monthly_card looks for the popup: it clicks it, or the wait_until
\* around it goes on or times out
Poll ==
    /\ card.stack # <<>>
    /\ Top(card).pc = "poll"
    /\ \E monthly_card \in BOOLEAN :
          IF monthly_card
          THEN CardStep([card EXCEPT !.stack = SetTop(card, "sleep1"),
                                     !.last = "click"])
          ELSE IF Top(card).fn = "is_main"
                  \/ card.now - Top(card).began >= MonthlyCardTimeOut
          THEN CardStep([card EXCEPT !.stack = Pop(card), !.last = "not found"])
          ELSE CardStep([card EXCEPT !.now = @ + PollStep, !.last = "poll"])

\* The sleep(2) after a click of handle_monthly_card: its check starts a
\* wait of its own, or the two seconds pass
SleepInHandle ==
    /\ card.stack # <<>>
    /\ Top(card).pc \in {"sleep1", "sleep2"}
    /\ LET after == IF Top(card).pc = "sleep1" THEN "sleep2" ELSE "settle"
       IN  \E combat \in BOOLEAN, team \in BOOLEAN :
             IF StartsWait(card, combat, team)
             THEN /\ WaitDepth(card) < MaxDepth
                  /\ CardStep([card EXCEPT !.stack = Append(SetTop(card, after),
                                                            Frame("wait", card)),
                                           !.last = "wait"])
             ELSE CardStep([card EXCEPT !.now = @ + 2, !.stack = SetTop(card, after),
                                        !.last = "sleep"])

\* The end of handle_monthly_card: the wait for the world, the new schedule,
\* and the return through the wait_until that called it
Claimed ==
    /\ card.stack # <<>>
    /\ Top(card).pc = "settle"
    /\ \E waited \in {0, 10} :
          LET c == [card EXCEPT !.now = @ + waited]
          IN  CardStep([c EXCEPT !.next_monthly_card_start = SetCheckMonthlyCard(c, TRUE),
                                 !.set_next_day = TRUE, !.stack = Pop(card),
                                 !.last = "claimed"])

CardSpec ==
    CardInit /\ [][SetCheckMonthlyCardCall \/ Sleep \/ IsMain \/ Poll \/ SleepInHandle
                   \/ Claimed]_vars

(***************************************************************************)
(* Properties of run and smart_enhance_run                                 *)
(***************************************************************************)
\* The EchoAction calls among the actions of an iteration
EchoActs(a) == SelectSeq(a, LAMBDA x : x.op # "sleep")
Issued(op) == \E i \in DOMAIN acts : acts[i].op = op

\* The iteration of the last scan has run to its end
IterEnded == "smart" \in ran /\ scans > 0 /\ pc \in {"loop", "finish", "done"}
Scanned == "smart" \in ran /\ scans > 0 /\ ~IsNone(profile)
BelowThreshold == RLt(ScoreRatio(stats_data, profile, coef), threshold)

\* The steps smart_enhance_run has left at most: four per iteration not yet
\* begun, and the rest of the one under way
SmartRank ==
    CASE pc = "smart_enhance_run" -> 7
      [] pc = "evaluate" -> 4
      [] pc \in {"decide", "scan_failed"} -> 3
      [] pc = "loop" -> 2
      [] pc = "finish" -> 1
      [] OTHER -> 0
SmartMeasure == 4 * (max_loops - loop_count) + SmartRank
InSmartRun ==
    pc \in {"smart_enhance_run", "loop", "scan_failed", "evaluate", "decide", "finish"}

\* smart_enhance_run has a next step: the step of its position can be taken,
\* and what the evaluation and the decision read is there
SmartStepReady ==
    /\ pc = "smart_enhance_run" => ENABLED SmartStart
    /\ pc = "loop" => ENABLED (Scan \/ LoopExit)
    /\ pc = "scan_failed" => ENABLED ScanFailed
    /\ pc = "evaluate" => (~IsNone(profile) /\ ~IsNone(coef) /\ ~Raised(coef))
    /\ pc = "decide"
        => (~IsNone(profile) /\ ~IsNone(score_ratio) /\ ~Raised(score_ratio))
    /\ pc = "finish" => ENABLED Finish

\* C1: with a target character of the coefficient catalog, smart_enhance_run
\* comes to its end whatever the scans give and whatever threshold, auto_tune
\* and auto_next are: it scans at most 100 times, raises nothing, always has a
\* next step until it has ended, every step brings it nearer to the end (a
\* natural number goes down), and it ends with the "Task finished." log
C1_SmartTerminates ==
    /\ [](scans <= max_loops /\ loop_count <= max_loops /\ scans = loop_count)
    /\ []((pc = "raised") => (target_role \notin DOMAIN CoefData))
    /\ []((pc = "done" /\ "smart" \in ran) => (last = "log_info:task_finished"))
    /\ []SmartStepReady
    /\ [][InSmartRun => (SmartMeasure' < SmartMeasure /\ SmartMeasure' >= 0)]_vars
    /\ [][(InSmartRun /\ ~InSmartRun') => (pc' \in {"done", "raised"})]_vars

C1_Witness ==
    pc = "done" /\ "smart" \in ran /\ scans = max_loops
        /\ last = "log_info:task_finished"

\* C2: an iteration whose scan gave a profile with ratio >= threshold and
\* level < 25 issues one enhance(5), then one tune exactly when auto_tune is
\* set, and no next_echo, before the next scan
C2_EnhanceOnce ==
    (IterEnded /\ Scanned /\ evaluated /\ ~RLt(score_ratio, threshold)
        /\ profile.level < 25)
    => EchoActs(acts) =
            <<Act("enhance", 5)>> \o (IF auto_tune THEN <<Act("tune", 0)>> ELSE <<>>)

C2_Witness ==
    /\ IterEnded /\ Scanned /\ evaluated /\ ~RLt(score_ratio, threshold)
    /\ profile.level < 25 /\ auto_tune
    /\ acts = <<Act("enhance", 5), Act("tune", 0), Act("sleep", 20)>>

\* C3: with auto_next off, an iteration whose ratio expected score /
\* denominator is below the threshold issues no action and is the last one:
\* the run goes to its end and scans no more
C3_DiscardStops ==
    /\ []((~auto_next /\ evaluated /\ pc # "decide" /\ Scanned /\ BelowThreshold)
            => (pc \in {"finish", "done"} /\ acts = <<>>))
    /\ [][(pc \in {"finish", "done"}) => (scans' = scans /\ acts' = acts)]_vars

C3_Witness ==
    /\ pc = "done" /\ scans = 2 /\ acts = <<>>
    /\ Scanned /\ evaluated /\ ~auto_next /\ BelowThreshold

\* C4: enhance is issued only after a scan that gave a profile with ratio >=
\* threshold and level < 25; tune only right after an enhance of the same
\* iteration, and only when auto_tune is set
C4_EnhanceOnlyWhenKept ==
    \A i \in DOMAIN acts :
        /\ acts[i].op = "enhance"
            => (Scanned /\ evaluated /\ ~RLt(score_ratio, threshold)
                /\ profile.level < 25)
        /\ acts[i].op = "tune"
            => (auto_tune /\ i > 1 /\ acts[i - 1].op = "enhance")

C4_Witness ==
    /\ Scanned /\ ~auto_tune /\ profile.level = 5
    /\ acts = <<Act("enhance", 5), Act("sleep", 20)>>

\* The iteration of the last scan ended as a failed scan, a discard or a kept
\* item of level >= 25
HandledCase ==
    IterEnded /\ (IsNone(profile)
                    \/ (evaluated /\ (RLt(score_ratio, threshold) \/ profile.level >= 25)))

\* What C5 says of every state
C5_States(capped) ==
    /\ HandledCase
        => IF auto_next
           THEN /\ EchoActs(acts) = <<Act("next_echo", 0)>>
                /\ pc = "loop" \/ (capped /\ loop_count = max_loops)
           ELSE acts = <<>> /\ pc \in {"finish", "done"}
    /\ ("smart" \in ran /\ ~auto_next) => ~Issued("next_echo")
    /\ ("smart" \in ran /\ scans > 0 /\ IsNone(profile))
        => (~evaluated /\ ~Issued("enhance") /\ ~Issued("tune") /\ pc # "evaluate"
            /\ pc # "decide")

\* C5 as stated: a failed scan, a discard and a kept item of level >= 25 end
\* their iteration alike: with auto_next, one next_echo and the loop goes on
\* to the next scan; without, no next_echo at all and the run ends.  A failed
\* scan is followed by no evaluation, enhance or tune
C5_Original ==
    /\ []C5_States(FALSE)
    /\ [][(pc = "loop" /\ HandledCase /\ auto_next) => (scans' = scans + 1)]_vars

\* C5 as amended: with auto_next, the loop goes on to the next scan unless the
\* iteration was the 100th, after which the run ends
C5_AutoNextUniform ==
    /\ []C5_States(TRUE)
    /\ [][(pc = "loop" /\ HandledCase /\ auto_next /\ loop_count < max_loops)
            => (scans' = scans + 1)]_vars
    /\ [][(pc = "loop" /\ HandledCase /\ auto_next /\ loop_count = max_loops)
            => (pc' = "finish" /\ scans' = scans)]_vars

C5_Witness ==
    /\ HandledCase /\ IsNone(profile) /\ auto_next
    /\ acts = NextEcho /\ pc = "loop" /\ loop_count = 2

\* C6: when the in-team check says true, run logs the warning and starts no
\* strategy: nothing is scanned, clicked or issued; when it says false, the
\* one strategy that runs is legacy_run if 'Legacy Mode' is set and
\* smart_enhance_run if not
C6_RunDispatch ==
    /\ (pc # "run" /\ in_team)
        => /\ pc = "done" /\ ran = {} /\ last = "log_warning:open_panel"
           /\ scans = 0 /\ acts = <<>> /\ clicks = 0 /\ enh_clicks = 0
    /\ (pc # "run" /\ ~in_team)
        => /\ pc \in {"smart_enhance_run", "legacy_run"} => ran = {}
           /\ pc = "legacy_run" <=> (legacy_mode /\ ran = {})
           /\ pc = "smart_enhance_run" <=> (~legacy_mode /\ ran = {})
           /\ ran # {} => ran = IF legacy_mode THEN {"legacy"} ELSE {"smart"}

C6_Witness == pc = "done" /\ in_team /\ last = "log_warning:open_panel"

(***************************************************************************)
(* Properties of legacy_run and do_handle_pop_up                           *)
(***************************************************************************)
InTrace(e) == \E i \in DOMAIN ltrace : ltrace[i] = e

\* C7: a call of do_handle_pop_up clicks at most once and looks at the frame
\* in a fixed order: the confirm button is clicked and nothing is signalled,
\* whatever else is visible; else the enhance button or the red dot gives 'ok'
\* and no click; else the merge screen gives 'exit' and no click; else the
\* fallback point of the step is clicked and nothing is signalled
C7_PopUpPriority ==
    pop_step # 0 =>
        /\ Len(pop_clicks) <= 1
        /\ IF "echo_enhance_confirm" \in pop_screen
           THEN pop_clicks = <<"echo_enhance_confirm">> /\ pop_result = NoResult
           ELSE IF "echo_enhance_btn" \in pop_screen \/ "red_dot" \in pop_screen
           THEN pop_clicks = <<>> /\ pop_result = "ok"
           ELSE IF "echo_merge" \in pop_screen
           THEN pop_clicks = <<>> /\ pop_result = "exit"
           ELSE /\ pop_result = NoResult
                /\ pop_clicks = <<IF pop_step = 1 THEN "0.51,0.87" ELSE "0.04,0.16">>

C7_Witness ==
    /\ pop_step = 1
    /\ pop_screen = {"echo_enhance_confirm", "echo_enhance_btn", "red_dot"}
    /\ pop_clicks = <<"echo_enhance_confirm">> /\ pop_result = NoResult

\* C8: the step-1 handler runs only after an enhance click of the click loop;
\* its 'exit' ends the run at once with True: no red-dot check, no click on
\* the tuning point, no step-2 handler; the step-2 handler runs only after the
\* red dot was found, the tuning point clicked and the enhance button found
\* again and clicked
C8_LegacyOrder ==
    /\ InTrace(<<"handler", 1>>) => (enh_clicks >= 1 /\ ltrace[1] = <<"handler", 1>>)
    /\ (step = 1 /\ handled = "exit")
        => (pc = "done" /\ ret = "True" /\ ltrace = <<<<"handler", 1>>>>)
    /\ \A i \in DOMAIN ltrace :
        ltrace[i] = <<"handler", 2>>
            => /\ i >= 4
               /\ ltrace[i - 3] = <<"red_dot", 1>>
               /\ ltrace[i - 2] = <<"click", 1>>
               /\ ltrace[i - 1] = <<"click", 2>>

C8_Witness ==
    /\ step = 1 /\ handled = "exit" /\ pc = "done" /\ ret = "True"
    /\ enh_clicks = 2 /\ pop_clicks = <<>>

\* C9: legacy_run comes to its end on every screen, also on one that shows the
\* target-level indicator after every click
C9_LegacyTerminates == (pc = "legacy_run") ~> (pc = "done")

(***************************************************************************)
(* Properties of the Calculator                                            *)
(***************************************************************************)
\* The stat fields of a profile that are not zero
FilledFields(p) == {k \in StatKeys : p.stats[k] # 0}

\* C10: prob_above_score returns exactly 1.0 whenever threshold <= current
\* score, however many stat fields are filled, and exactly 0.0 whenever 5 or
\* more stat fields are non-zero and threshold > current score
C10_ProbEarlyReturns ==
    calc_op = "prob_above_score" =>
        LET current_score == GetScore(calc_profile, calc_coef)
        IN  /\ RLe(calc_threshold, current_score) => calc_result = One
            /\ (Cardinality(FilledFields(calc_profile)) >= 5
                    /\ RLt(current_score, calc_threshold))
                => calc_result = Zero

C10_Witness ==
    /\ calc_op = "prob_above_score"
    /\ Cardinality(FilledFields(calc_profile)) = 5
    /\ Cardinality(DOMAIN stats_data) = CalcKeyCount
    /\ RLt(Zero, GetScore(calc_profile, calc_coef))
    /\ RLt(GetScore(calc_profile, calc_coef), calc_threshold)
    /\ calc_result = Zero

\* C11: get_expected_score returns exactly the current score, with no
\* projection term, for every profile with all 5 slots filled (5 or more
\* rolled stats), whatever the coefficient profile
C11_ExpectedWhenFull ==
    (calc_op = "get_expected_score"
        /\ Cardinality(ExistingSubStats(stats_data, calc_profile)) >= 5)
    => calc_result = GetScore(calc_profile, calc_coef)

C11_Witness ==
    /\ calc_op = "get_expected_score"
    /\ Cardinality(ExistingSubStats(stats_data, calc_profile)) = 5
    /\ calc_result = GetScore(calc_profile, calc_coef)
    /\ RLt(Zero, calc_result)
    /\ \E key \in DOMAIN stats_data :
            calc_profile.stats[key] = 0 /\ RLt(Zero, CoefGet(calc_coef, key))

\* The sum over the 13 stat keys of field value x weight
DotProduct(p, c) ==
    SumOver([key \in StatKeys |-> RMul(RInt(p.stats[key]), CoefGet(c, key))], StatKeys)

\* C12: Calculator.get_score and EchoProfile.get_score both return the sum
\* over the 13 stat keys of field value x weight, for every profile and every
\* coefficient profile built by EntryCoef, and so the same number
C12_SameDotProduct ==
    /\ calc_op = "get_score" => calc_result = DotProduct(calc_profile, calc_coef)
    /\ calc_op = "profile_get_score"
        => /\ calc_result = DotProduct(calc_profile, calc_coef)
           /\ calc_result = GetScore(calc_profile, calc_coef)

C12_Witness ==
    /\ calc_op = "profile_get_score"
    /\ calc_profile.stats["atk_num"] > 0 /\ calc_profile.stats["cri_rate"] > 0
    /\ calc_coef["atk_num"] = AtkNum
    /\ calc_result = RAdd(RMul(RInt(calc_profile.stats["atk_num"]), AtkNum),
                          RAdd(RMul(RInt(calc_profile.stats["cri_rate"]), RInt(2)),
                               RMul(RInt(calc_profile.stats["cri_dmg"]), One)))
    /\ calc_profile.stats["atk_rate"] = 0

C14_SetKeepsOthers ==
    (conf_op = "set" /\ file_before.kind = "doc")
    => \A k \in DOMAIN Load(file_before.items) \ {conf_key} :
            /\ config_file.kind = "doc"
            /\ k \in DOMAIN Load(config_file.items)
            /\ Load(config_file.items)[k] = Load(file_before.items)[k]

(***************************************************************************)
(* Properties of the catalog loading                                       *)
(***************************************************************************)
\* C15: when a static catalog file is missing, malformed or empty, the
\* process goes on with an empty table instead of aborting, and every lookup
\* (all keys, a stat, a distribution) gives an empty or not-found result
\* without raising
C15_LoadFailureTolerated ==
    /\ "aborted" \notin load_pc
    /\ ("stats" \in load_pc /\ stat_file # "ok") => stats_data = EmptyTable
    /\ (lookup_op # "" /\ stat_file # "ok")
        => /\ ~Raised(lookup_result)
           /\ lookup_result.value = CASE lookup_op = "get_all_keys" -> {}
                                       [] lookup_op = "get_stat" -> None
                                       [] OTHER -> <<>>


(***************************************************************************)
(* EchoProfile.validate                                                    *)
(***************************************************************************)
Validated == calc_op = "validate"
Rejected == ~Raised(calc_result) /\ calc_result.value = FALSE
Accepted == ~Raised(calc_result) /\ calc_result.value = TRUE
LevelSteps == {0, 5, 10, 15, 20, 25}

\* The values a stat's catalog distribution lists
ListedValues(sd, key) ==
    {sd[key].distribution[i].value : i \in DOMAIN sd[key].distribution}

\* C16: validate rejects every profile whose level is not one of 0, 5, 10,
\* 15, 20, 25, whatever its name and stat fields are.
C16_LevelStepRequired ==
    (Validated /\ calc_profile.level \notin LevelSteps) => Rejected

\* C17: validate returns false for every profile whose number of non-zero
\* stat fields differs from level/5, so every profile it accepts has exactly
\* level/5 non-zero stat fields.
C17_CountMatchesLevel ==
    /\ (Validated /\ Cardinality(FilledFields(calc_profile)) * 5 # calc_profile.level)
            => Rejected
    /\ (Validated /\ Accepted)
            => Cardinality(FilledFields(calc_profile)) * 5 = calc_profile.level

\* C18: validate returns false for every profile that has a non-zero stat
\* field whose value is not one of the values listed in that stat's catalog
\* distribution; every accepted profile has each stat field either 0 or a
\* listed value.
C18_UnlistedValueRejected ==
    /\ (Validated /\ \E k \in StatKeys :
                        /\ calc_profile.stats[k] # 0
                        /\ calc_profile.stats[k] \notin ListedValues(stats_data, k))
            => Rejected
    /\ (Validated /\ Accepted)
            => \A k \in StatKeys :
                    \/ calc_profile.stats[k] = 0
                    \/ calc_profile.stats[k] \in ListedValues(stats_data, k)

\* A level-5 profile of a known echo whose one non-zero stat has a value its
\* distribution does not list: the count check passes, the value check
\* rejects
C18_Witness ==
    /\ Validated /\ Rejected
    /\ calc_profile.level = 5 /\ calc_profile.name \in EchoNames
    /\ FilledFields(calc_profile) = {"cri_dmg"}
    /\ calc_profile.stats["cri_dmg"] = 10
    /\ \A k \in DOMAIN ExtraOf(calc_profile) : ExtraOf(calc_profile)[k] = 0

\* C19: validate never raises: for every profile reachable by construction,
\* field assignment or from_dict (a key that is not one of the 13 stat keys
\* included), it returns a boolean.
C19_ValidateNeverRaises ==
    Validated => (~Raised(calc_result) /\ calc_result.value \in BOOLEAN)

\* C20: validate is read-only: the profile's level, name and all stat
\* fields are identical before and after the call, whether it returns true
\* or false.
C20_ValidateReadOnly ==
    [][(calc_op = "" /\ calc_op' = "validate") =>
            /\ calc_profile'.level = calc_profile.level
            /\ calc_profile'.name = calc_profile.name
            /\ calc_profile'.stats = calc_profile.stats
            /\ ExtraOf(calc_profile') = ExtraOf(calc_profile)]_vars

\* validate has returned for a level-7 profile with one listed value
C20_Witness ==
    /\ Validated /\ ~Raised(calc_result)
    /\ calc_profile.level = 7 /\ calc_profile.name \in EchoNames
    /\ FilledFields(calc_profile) = {"atk_num"}
    /\ calc_profile.stats["atk_num"] = 40

(***************************************************************************)
(* EchoProfile.upgrade                                                     *)
(***************************************************************************)
Upgraded == calc_op = "upgrade"

\* C21: upgrade(level, new_entry) has exactly two outcomes: it returns a copy
\* with the given level and the parsed entry applied that passes validate, or
\* it returns no value; it returns no value and does not raise whenever
\* new_entry matches no stat of the catalog or the copy fails validation.
C21_UpgradeTwoOutcomes ==
    Upgraded =>
        LET copy == UpgradeCopy(stats_data, calc_profile, calc_arg.level,
                                calc_arg.new_entry)
            matches == ExtractEntry(stats_data, calc_arg.new_entry) # NoResult
            valid == Validate(EchoNames, stats_data, copy) = Returns(TRUE)
        IN  /\ ~Raised(calc_result)
            /\ \/ calc_result.value = None
               \/ (matches /\ valid /\ calc_result.value = copy
                            /\ copy.level = calc_arg.level)
            /\ (~matches \/ ~valid) => calc_result.value = None

C23_UnknownCharacterRaises ==
    [][(calc_arg' \notin DOMAIN coef_data) =>
            (calc_result' = ValueError /\ calc_coef' = calc_coef)]_vars

\* set_char with an unknown name on an object built for a catalogued name
C23_Witness ==
    /\ calc_op = "set_char" /\ calc_arg = "Nobody"
    /\ calc_result = ValueError
    /\ calc_coef # None /\ calc_coef["hp_rate"] = One

\* C24: after a Coefficient Profile is built for a catalogued character
\* whose damage source is hp, atk or def, the matching rate weight is 1 and
\* the matching flat weight is the constant of the source (0.00676, 0.1,
\* 0.1), for every content of the sparse mappings.
C24_SourceWeightsFixed ==
    (calc_op \in {"EntryCoef", "set_char"} /\ ~Raised(calc_result)) =>
        LET s == coef_data[calc_arg].dmg_source
        IN  /\ s = "hp" => (calc_coef["hp_rate"] = One /\ calc_coef["hp_num"] = Rat(169, 25000))
            /\ s = "atk" => (calc_coef["atk_rate"] = One /\ calc_coef["atk_num"] = Rat(1, 10))
            /\ s = "def" => (calc_coef["def_rate"] = One /\ calc_coef["def_num"] = Rat(1, 10))

(***************************************************************************)
(* The configuration panel                                                 *)
(***************************************************************************)
\* The target character a settings file holds, "Default" when it holds none
PersistedRole(file) ==
    IF file.kind = "doc" /\ "target_role" \in DOMAIN Load(file.items)
    THEN Load(file.items)["target_role"]
    ELSE "Default"

\* C25: constructing the panel loads and keeps the last-persisted target
\* character: after construction the persisted target_role is the value
\* persisted before it, or "Default" when none was, for every previously
\* persisted value.
C25_PanelKeepsRole ==
    conf_op = "panel" => PersistedRole(config_file) = PersistedRole(file_before)

(***************************************************************************)
(* use_stamina                                                             *)
(***************************************************************************)
StaminaUsed == calc_op = "use_stamina"

\* C29: use_stamina returns can_continue = false exactly when, after the
\* spent amount is subtracted, the total stamina (current + backup) is below
\* once, or the remaining must_use is <= 0 and the current stamina is below
\* once; so can_continue = true implies the remaining total covers one more
\* single-cost run.
C29_CanContinue ==
    StaminaUsed =>
        LET used == calc_result.used
            stop == \/ calc_arg.total - used < calc_arg.once
                    \/ /\ calc_arg.must_use - used <= 0
                       /\ calc_arg.current - used < calc_arg.once
        IN  /\ calc_result.can_continue = ~stop
            /\ calc_result.can_continue => calc_arg.total - used >= calc_arg.once

\* The total covers another run, the must_use is met and only the backup
\* is left: no further cycle
C29_Witness ==
    /\ StaminaUsed /\ ~calc_result.can_continue
    /\ calc_arg.total - calc_result.used >= calc_arg.once
    /\ calc_arg.must_use > 0

\* C30: the click position follows the single/double choice: the double
\* position (x = 0.67) exactly when the amount reported as spent is 2 x once,
\* the single position (x = 0.32) exactly when it is once; when the doubled
\* number is not visible it always consumes double.
C30_ClickFollowsChoice ==
    StaminaUsed =>
        /\ (calc_result.acts[1].x = Rat(67, 100)) = (calc_result.used = 2 * calc_arg.once)
        /\ (calc_result.acts[1].x = Rat(32, 100)) = (calc_result.used = calc_arg.once)
        /\ ~calc_arg.double => calc_result.used = 2 * calc_arg.once

(***************************************************************************)
(* The movement helpers                                                    *)
(***************************************************************************)
Returned(fn) == nav # None /\ nav.fn = fn /\ nav.pc = "done"

\* C26: send_key_and_wait_f and run_until release what they press on every
\* exit path: when they end, by the condition or by a timeout reported as a
\* falsy result or as a raised not-found error, the direction key and the
\* right mouse button pressed for running are up.
C26_HelpersRelease ==
    (Returned("send_key_and_wait_f") \/ Returned("run_until")) => held = {}

\* C27: when do_walk_to_box returns, every key and mouse button it pressed
\* is up: the last direction key and the right mouse button held for the
\* sprint on a climbing surface.
C27_WalkToBoxReleases ==
    Returned("do_walk_to_box") => held = {}

\* C28: during walk_to_yolo_echo at most one of the movement keys w/a/s/d
\* is down at any time, and none is down when it returns, on each of its
\* exits.
C28_YoloOneKey ==
    (nav # None /\ nav.fn = "walk_to_yolo_echo") =>
        /\ peak <= 1
        /\ Cardinality(held \cap MoveKeys) <= 1
        /\ nav.pc = "done" => held \cap MoveKeys = {}

\* It returned after it had changed direction
C28_Witness ==
    /\ Returned("walk_to_yolo_echo") /\ nav.frames >= 2
    /\ nav.last_direction = "d" /\ peak = 1 /\ held = {}

(***************************************************************************)
(* Properties of get_angle_between and _navigate_based_on_angle             *)
(***************************************************************************)
\* C31: get_angle_between returns a turn greater than -180 and at most 180
\* for every heading in 0..359 and every target angle in [0, 360)
C31_TurnInHalfOpenRange ==
    calc_op = "get_angle_between" =>
        -180 < calc_result.value /\ calc_result.value <= 180

\* The events hold a press of the key that a later event releases
Tapped(events, key) ==
    \E i, j \in DOMAIN events :
        i < j /\ events[i] = <<"down", key>> /\ events[j] = <<"up", key>>

\* The events release the key or button before anything is pressed
ReleasedFirst(events, key) ==
    \E i \in DOMAIN events :
        /\ events[i] = <<"up", key>>
        /\ \A j \in 1 .. i - 1 : events[j][1] = "up"

\* The quadrant of an angle as the specification words it
Quadrant(angle) ==
    IF -45 <= angle /\ angle <= 45 THEN "w"
    ELSE IF 45 < angle /\ angle <= 135 THEN "d"
    ELSE IF -135 < angle /\ angle < -45 THEN "a"
    ELSE "s"

Navigated == calc_op = "_navigate_based_on_angle"
MinorRight == calc_arg.current_direction = "w" /\ 10 <= calc_arg.angle /\ calc_arg.angle <= 80
MinorLeft == calc_arg.current_direction = "w" /\ -80 <= calc_arg.angle /\ calc_arg.angle <= -10
QuadrantChanged ==
    ~MinorRight /\ ~MinorLeft /\ Quadrant(calc_arg.angle) # calc_arg.current_direction

\* C32: moving forward with the angle in [10, 80] (in [-80, -10]) the call taps
\* 'd' ('a') and returns direction and adjustment unchanged with
\* should_continue true; in every other case, when the quadrant of the angle
\* differs from the current direction, it releases the current movement, turns
\* to the quadrant and returns direction 'w' with 'w' and the right button
\* held and should_continue false
C32_NavigateByAngle ==
    Navigated =>
        /\ (MinorRight \/ MinorLeft) =>
              /\ Tapped(calc_result.events, IF MinorRight THEN "d" ELSE "a")
              /\ calc_result.direction = calc_arg.current_direction
              /\ calc_result.adjust = calc_arg.current_adjust
              /\ calc_result.should_continue
        /\ QuadrantChanged =>
              /\ calc_arg.current_direction # "" =>
                    /\ ReleasedFirst(calc_result.events, calc_arg.current_direction)
                    /\ ReleasedFirst(calc_result.events, "mouse_right")
              /\ Quadrant(calc_arg.angle) # "w" =>
                    Tapped(calc_result.events, Quadrant(calc_arg.angle))
              /\ Tapped(calc_result.events, "mouse_middle")
              /\ calc_result.direction = "w"
              /\ {"w", "mouse_right"} \subseteq held
              /\ ~calc_result.should_continue

\* A turn to the right quadrant out of a forward movement
C32_Witness ==
    /\ Navigated
    /\ QuadrantChanged
    /\ calc_arg.current_direction = "w"
    /\ calc_arg.angle = 81
    /\ calc_result.direction = "w"
    /\ held = {"w", "mouse_right"}

(***************************************************************************)
(* Properties of the monthly card check                                     *)
(***************************************************************************)
\* set_check_monthly_card has just returned
Scheduled == card # None /\ card.last \in {"set", "claimed"}
TimeOfDay == card.now % Day
HourPassed == TimeOfDay >= card.hour * Hour

C34_RescheduledAhead ==
    (card # None /\ card.last = "claimed") =>
        /\ card.enabled => card.next_monthly_card_start > card.now
        /\ ~ShouldCheckMonthlyCard(card)

\* C35: no wait of check_for_monthly_card starts inside another one or inside
\* the claim sequence of a wait
C35_NoNestedWait ==
    card # None => WaitDepth(card) <= 1

(***************************************************************************)
(* Properties of the scores of the Calculator                              *)
(***************************************************************************)
\* max_potential of smart_enhance_run for the catalog and coefficients of the call
Denominator ==
    LET potential == GetMaxPossibleScore(stats_data, EchoProfile(0, ""), calc_coef)
    IN  IF RLe(potential, Zero) THEN One ELSE potential

\* C36: the denominator of the ratio is strictly positive and
\* get_expected_score raises no division error, for every stat catalog (one
\* with fewer than 5 keys or none included), coefficient profile and profile
C36_NoDivisionByZero ==
    calc_op = "get_expected_score" =>
        /\ RLt(Zero, Denominator)
        /\ ~Raised(calc_result)

\* The best still possible gain of a stat: its largest value times its weight
BestGain(key) ==
    RMul(RInt(MaxValue(stats_data[key].distribution)), CoefGet(calc_coef, key))

\* The stat keys of the catalog that the profile does not use
Unused == DOMAIN stats_data \ FilledFields(calc_profile)
Remaining == 5 - Cardinality(FilledFields(calc_profile))

\* C37: get_max_possible_score returns the current score when no slot
\* remains, otherwise the current score plus the sum of the `remaining`
\* largest values of (maximum value x weight) over the unused stat keys
C37_MaxPossibleScore ==
    calc_op = "get_max_possible_score" =>
        LET current_score == GetScore(calc_profile, calc_coef)
        IN  IF Remaining <= 0 THEN calc_result = current_score
            ELSE \E T \in SUBSET Unused :
                    /\ Cardinality(T) = Min(Remaining, Cardinality(Unused))
                    /\ \A x \in T, y \in Unused \ T : RLe(BestGain(y), BestGain(x))
                    /\ calc_result =
                          RAdd(current_score, SumOver([x \in T |-> BestGain(x)], T))

\* Two slots remain and three keys are unused, one of them without a weight
C37_Witness ==
    /\ calc_op = "get_max_possible_score"
    /\ Remaining = 2
    /\ Cardinality(Unused) = 3
    /\ RLt(GetScore(calc_profile, calc_coef), calc_result)
    /\ \E x \in Unused : BestGain(x) = Zero

\* The sum of each distribution of the catalog is 1
DistributionsSumToOne ==
    \A key \in DOMAIN stats_data :
        LET dist == stats_data[key].distribution
        IN  SumOver([i \in DOMAIN dist |-> dist[i].probability], DOMAIN dist) = One

\* The combinations of prob_above_score for the profile of the call
Combos ==
    LET existing == ExistingSubStats(stats_data, calc_profile)
        pool == GetAllKeys(stats_data) \ existing
    IN  {S \in SUBSET pool : Cardinality(S) = 5 - Cardinality(existing)}

\* The total probability of a score distribution
Mass(dist) == SumOver([q \in dist |-> q[2]], dist)

\* C38: when every distribution of the catalog sums to 1, the convolved score
\* distribution of every combination has total probability 1, and the
\* probability returned lies within [0, 1]
C38_MassConserved ==
    (calc_op = "prob_above_score" /\ DistributionsSumToOne) =>
        /\ \A S \in Combos :
              Mass(ComboDist(stats_data, calc_coef, S, {<<Zero, One>>})) = One
        /\ RLe(Zero, calc_result) /\ RLe(calc_result, One)

\* A probability strictly between 0 and 1 from more than one combination
C38_Witness ==
    /\ calc_op = "prob_above_score"
    /\ DistributionsSumToOne
    /\ Cardinality(Combos) > 1
    /\ RLt(Zero, calc_result) /\ RLt(calc_result, One)

\* C39: for a profile with at most 5 non-zero stat fields and non-negative
\* weights, get_score <= get_expected_score <= get_max_possible_score
C39_ScoresOrdered ==
    (calc_op = "get_max_possible_score"
        /\ Cardinality(FilledFields(calc_profile)) <= 5
        /\ \A key \in DOMAIN calc_coef : RLe(Zero, calc_coef[key]))
    => LET score == GetScore(calc_profile, calc_coef)
           expected == GetExpectedScore(stats_data, calc_profile, calc_coef)
       IN  /\ ~Raised(expected)
           /\ RLe(score, expected)
           /\ RLe(expected, calc_result)

====
